---- MODULE Spec2Model ----
(***************************************************************************)
(* Model of the openmanus plan execution engine                            *)
(* (examples/openmanus-agent/src/openmanus): Executor.execute_plan with    *)
(* reference resolution, the trace model, FileTool and ShellTool.          *)
(*                                                                         *)
(* Representation of Python values:                                        *)
(*   - a str is a sequence of tokens; ":" is a token of its own, so that   *)
(*     startswith("ref:step:") and split(":") are computed on the text;    *)
(*   - a JSON value is a tagged record [t, v]: t is "none", "bool", "str", *)
(*     "dict" or "list"; a dict's v is a function from keys to values, a   *)
(*     list's v a sequence of values;                                      *)
(*   - a raised exception is a result record with raised = TRUE.           *)
(***************************************************************************)
EXTENDS Integers, Sequences, FiniteSets, TLC

\* ------------------------------------------------------------------ bounds
MaxSteps == 2
MaxCalls == 2
MaxClock == 1
MaxContent == 2
MaxTraces == 3

\* ------------------------------------------------------------ Python values
None == [t |-> "none", v |-> <<>>]
Str(s) == [t |-> "str", v |-> s]
Bool(b) == [t |-> "bool", v |-> b]
Dict(d) == [t |-> "dict", v |-> d]
List(l) == [t |-> "list", v |-> l]
Num(n) == [t |-> "int", v |-> n]

\* Python truthiness of a value (`x or default`, `if x`).
Truthy(x) ==
  CASE x.t = "none" -> FALSE
    [] x.t = "bool" -> x.v
    [] x.t = "str" -> Len(x.v) > 0
    [] x.t = "dict" -> DOMAIN x.v # {}
    [] x.t = "list" -> Len(x.v) > 0
    [] x.t = "int" -> x.v # 0

\* str.startswith
StartsWith(s, prefix) ==
  /\ Len(s) >= Len(prefix)
  /\ SubSeq(s, 1, Len(prefix)) = prefix

\* str.split(sep) for a one-token separator: the parts between separators.
RECURSIVE Split(_, _)
Split(s, sep) ==
  IF \A n \in 1..Len(s) : s[n] # sep
  THEN <<s>>
  ELSE LET first == CHOOSE n \in 1..Len(s) :
                      s[n] = sep /\ \A m \in 1..(n - 1) : s[m] # sep
       IN <<SubSeq(s, 1, first - 1)>> \o Split(SubSeq(s, first + 1, Len(s)), sep)

RefPrefix == <<"ref", ":", "step", ":">>

\* ---------------------------------------------------------------- statuses
PENDING == "pending"
RUNNING == "running"
SUCCESS == "success"
FAILURE == "failure"
SKIPPED == "skipped"

\* ------------------------------------------------------ reference resolver
\* Result of a call that may raise: v is the value returned, or the
\* exception's message (str(e)) when raised.
Returned(x) == [raised |-> FALSE, v |-> x]
Raised(msg) == [raised |-> TRUE, v |-> msg]

\* ResolveString that always substitutes the whole recorded output.
ResolveString_WholeOutput(value, outs) ==
  IF StartsWith(value.v, RefPrefix)
  THEN LET parts == Split(value.v, ":")
       IN IF Len(parts) >= 3 /\ parts[3] \in DOMAIN outs
          THEN outs[parts[3]]
          ELSE value
  ELSE value

\* ResolveString that gives None for a reference to a step without a
\* recorded output.
ResolveString_NoneForMissing(value, outs) ==
  IF StartsWith(value.v, RefPrefix)
  THEN LET parts == Split(value.v, ":")
       IN IF Len(parts) >= 3
          THEN LET step_id == parts[3]
               IN IF step_id \in DOMAIN outs
                  THEN LET step_output == outs[step_id]
                       IN IF step_output.t = "dict" /\ "content" \in DOMAIN step_output.v
                          THEN step_output.v["content"]
                          ELSE step_output
                  ELSE None
          ELSE value
  ELSE value

\* executor.py:148-170, one string value: a value that starts with
\* "ref:step:" names the step id parts[2] of value.split(":"); it is replaced
\* by the recorded output's "content" if that output is a dict with one, by
\* the recorded output otherwise, and left as it is when nothing is recorded.
ResolveString(value, outs) ==
  IF StartsWith(value.v, RefPrefix)
  THEN LET parts == Split(value.v, ":")
       IN IF Len(parts) >= 3
          THEN LET step_id == parts[3]
               IN IF step_id \in DOMAIN outs
                  THEN LET step_output == outs[step_id]
                       IN IF step_output.t = "dict" /\ "content" \in DOMAIN step_output.v
                          THEN step_output.v["content"]
                          ELSE step_output
                  ELSE value
          ELSE value
  ELSE value

\* executor.py:174-179: a list is rebuilt element by element; an element that
\* is a dict evaluates `self._resolve_inputs({k: v})["k"]`, where the name k
\* is not bound, which raises NameError; every other element is kept as is.
ResolveList(value) ==
  IF \E n \in 1..Len(value.v) : value.v[n].t = "dict"
  THEN Raised(<<"name 'k' is not defined">>)
  ELSE Returned(value)

\* Executor._resolve_inputs: the dict is rebuilt key by key; the first
\* exception raised for a value propagates.
RECURSIVE _resolve_inputs(_, _)
_resolve_inputs(inputs, outs) ==
  LET one(value) ==
        CASE value.t = "str" -> Returned(ResolveString(value, outs))
          [] value.t = "dict" ->
               LET r == _resolve_inputs(value.v, outs)
               IN IF r.raised THEN r ELSE Returned(Dict(r.v))
          [] value.t = "list" -> ResolveList(value)
          [] OTHER -> Returned(value)
  IN IF \E key \in DOMAIN inputs : one(inputs[key]).raised
     THEN one(inputs[CHOOSE key \in DOMAIN inputs : one(inputs[key]).raised])
     ELSE Returned([key \in DOMAIN inputs |-> one(inputs[key]).v])

\* -------------------------------------------------------------- trace model
\* TraceEntry(step_id, tool, inputs_digest, inputs): the defaults of the
\* other fields (trace.py:26-50). end_time is None or set.
TraceEntry(step_id, tool, inputs) ==
  [step_id |-> step_id, tool |-> tool, inputs |-> inputs,
   status |-> PENDING, error |-> None, outputs |-> None, end_time |-> FALSE]

mark_started(trace) == [trace EXCEPT !.status = RUNNING]

mark_success(trace, outputs) ==
  [trace EXCEPT !.status = SUCCESS, !.end_time = TRUE, !.outputs = outputs]

\* A mark_failure that forgets the end time.
mark_failure_NoEndTime(trace, error) ==
  [trace EXCEPT !.status = FAILURE, !.error = Str(error)]

mark_failure(trace, error) ==
  [trace EXCEPT !.status = FAILURE, !.end_time = TRUE, !.error = Str(error)]

\* A count that stops at one.
CountStatus_AtMostOne(traces, status) ==
  IF \E n \in 1..Len(traces) : traces[n].status = status THEN 1 ELSE 0

\* Number of traces with a status.
RECURSIVE CountStatus(_, _)
CountStatus(traces, status) ==
  IF traces = <<>>
  THEN 0
  ELSE (IF Head(traces).status = status THEN 1 ELSE 0)
       + CountStatus(Tail(traces), status)

\* ExecutionResult(...) as execute_plan constructs it (executor.py:64-74).
ExecutionResult(plan) ==
  [plan_goal |-> plan.goal, plan_risk_level |-> plan.risk_level,
   total_steps |-> Len(plan.steps), successful_steps |-> 0,
   failed_steps |-> 0, skipped_steps |-> 0, overall_status |-> PENDING,
   end_time |-> FALSE, traces |-> <<>>, produced_files |-> <<>>]

\* A finalize that leaves a result without steps PENDING.
finalize_EmptyIsPending(result) ==
  LET failed == CountStatus(result.traces, FAILURE)
      successful == CountStatus(result.traces, SUCCESS)
      skipped == CountStatus(result.traces, SKIPPED)
  IN [result EXCEPT
        !.end_time = TRUE,
        !.failed_steps = failed,
        !.successful_steps = successful,
        !.skipped_steps = skipped,
        !.overall_status = IF failed > 0 THEN FAILURE
                           ELSE IF successful = result.total_steps /\ successful > 0
                           THEN SUCCESS
                           ELSE PENDING]

\* finalize with the failure test off by one (`failed_steps > 1`).
finalize_FailedOffByOne(result) ==
  LET failed == CountStatus(result.traces, FAILURE)
      successful == CountStatus(result.traces, SUCCESS)
      skipped == CountStatus(result.traces, SKIPPED)
  IN [result EXCEPT
        !.end_time = TRUE,
        !.failed_steps = failed,
        !.successful_steps = successful,
        !.skipped_steps = skipped,
        !.overall_status = IF failed > 1 THEN FAILURE
                           ELSE IF successful = result.total_steps THEN SUCCESS
                           ELSE PENDING]

\* ExecutionResult.finalize
finalize(result) ==
  LET failed == CountStatus(result.traces, FAILURE)
      successful == CountStatus(result.traces, SUCCESS)
      skipped == CountStatus(result.traces, SKIPPED)
  IN [result EXCEPT
        !.end_time = TRUE,
        !.failed_steps = failed,
        !.successful_steps = successful,
        !.skipped_steps = skipped,
        !.overall_status = IF failed > 0 THEN FAILURE
                           ELSE IF successful = result.total_steps THEN SUCCESS
                           ELSE PENDING]

\* ------------------------------------------------------- plans and tools
\* Step ids "1", "2", ... in plan order.
StepId(n) == <<ToString(n)>>

Ref(n) == Str(RefPrefix \o StepId(n))
RefOutput(n) == Str(RefPrefix \o StepId(n) \o <<".output">>)

\* The inputs a step of a plan may carry.
PlainInputs == [path |-> Str(<<"notes.txt">>)]
RefInputs == [content |-> Ref(1), alt |-> RefOutput(1), next |-> Ref(2)]
ListInputs == [args |-> List(<<Dict([name |-> Str(<<"x">>)])>>)]

\* Names registered in the executor's ToolRegistry, and the names a plan may use.
RegisteredTools == {"file"}

\* A registry that has a tool for every name.
RegistryGet_AnyName(name) == Str(<<name>>)

\* ToolRegistry.get: the tool, or None for a name that is not registered.
RegistryGet(name) == IF name \in RegisteredTools THEN Str(<<name>>) ELSE None

StepPool ==
  { [tool |-> "file", inputs |-> PlainInputs],
    [tool |-> "file", inputs |-> RefInputs],
    [tool |-> "file", inputs |-> ListInputs],
    [tool |-> "browser", inputs |-> PlainInputs] }

\* cli.py:290-294: the risk levels of a plan.
LOW == "LOW"
MEDIUM == "MEDIUM"
HIGH == "HIGH"
RiskLevels == {LOW, MEDIUM, HIGH}

\* Plans of up to MaxSteps steps; the n-th step has id StepId(n).
PlanOf(f) ==
  [goal |-> "goal", risk_level |-> "LOW",
   steps |-> [n \in DOMAIN f |->
                [id |-> StepId(n), description |-> <<"Step", ToString(n)>>,
                 tool |-> f[n].tool, inputs |-> f[n].inputs]]]

Plans == UNION { { PlanOf(f) : f \in [1..len -> StepPool] } : len \in 0..MaxSteps }

\* The same plans at every risk level.
PlansOfAnyRisk == { [p EXCEPT !.risk_level = r] : p \in Plans, r \in RiskLevels }

\* What tool.execute(inputs) may do: return a ToolOutput(success, data, error)
\* or raise an exception whose message is `error`.
ToolOutput(success, data, error) ==
  [raised |-> FALSE, success |-> success, data |-> data, error |-> error]
ToolRaises(msg) ==
  [raised |-> TRUE, success |-> FALSE, data |-> None, error |-> Str(msg)]

ToolOutcomes ==
  { ToolOutput(TRUE, Dict([content |-> Str(<<"Hello">>), path |-> Str(<<"/ws/notes.txt">>)]), None),
    ToolOutput(TRUE, Dict([path |-> Str(<<"/ws/out.md">>)]), None),
    ToolOutput(TRUE, Str(<<"text">>), None),
    ToolOutput(FALSE, None, Str(<<"File not found">>)),
    ToolOutput(FALSE, Dict([return_code |-> Str(<<"1">>), path |-> Str(<<"/ws/err.log">>)]),
               Str(<<>>)),
    ToolRaises(<<"boom">>),
    ToolRaises(<<>>) }

\* A dry run that records an empty output.
DryRunOutput_Empty == Dict(<<>>)

\* executor.py:90-91: the output of a step in a dry run.
DryRunOutput == Dict([dry_run |-> Bool(TRUE)])

\* ---------------------------------------------------------------- FileTool
\* A path is a sequence of names from the filesystem root; a path string is
\* a str whose "/" are tokens of their own. A node of the filesystem is a
\* directory, a file with its content, or a symbolic link with its target.
WorkspaceRoot == <<"ws">>

DirNode == [kind |-> "dir", data |-> <<>>]
FileNode(content) == [kind |-> "file", data |-> content]
LinkNode(target) == [kind |-> "link", data |-> target]

Exists(files, p) == p = <<>> \/ p \in DOMAIN files
IsDir(files, p) == p = <<>> \/ (p \in DOMAIN files /\ files[p].kind = "dir")
IsFile(files, p) == p \in DOMAIN files /\ files[p].kind = "file"

IsPrefix(a, b) == Len(a) <= Len(b) /\ SubSeq(b, 1, Len(a)) = a

\* Some proper ancestor of p is a regular file.
UnderFile(files, p) == \E n \in 1..(Len(p) - 1) : IsFile(files, SubSeq(p, 1, n))

\* str(path)
RECURSIVE PathStr(_)
PathStr(p) ==
  IF p = <<>> THEN <<"/">>
  ELSE IF Len(p) = 1 THEN <<"/", p[1]>>
  ELSE PathStr(SubSeq(p, 1, Len(p) - 1)) \o <<"/", p[Len(p)]>>

\* Path.resolve on the names still to walk: "." stays, ".." goes to the
\* parent, a symbolic link is replaced by its target.
RECURSIVE Resolve(_, _, _)
Resolve(files, cur, rest) ==
  IF rest = <<>> THEN cur
  ELSE LET name == Head(rest)
           next == Append(cur, name)
       IN IF name = "." THEN Resolve(files, cur, Tail(rest))
          ELSE IF name = ".."
          THEN Resolve(files, SubSeq(cur, 1, Len(cur) - 1), Tail(rest))
          ELSE IF next \in DOMAIN files /\ files[next].kind = "link"
          THEN Resolve(files, files[next].data, Tail(rest))
          ELSE Resolve(files, next, Tail(rest))

\* (workspace_root / path).resolve(): an absolute path string replaces the
\* root, a relative one is walked from it.
JoinResolve(files, s) ==
  LET IsName(tok) == tok # "/"
      names == SelectSeq(s, IsName)
  IN IF s # <<>> /\ s[1] = "/"
     THEN Resolve(files, <<>>, names)
     ELSE Resolve(files, WorkspaceRoot, names)

OutsideWorkspace(s) ==
  <<"Path '">> \o s \o <<"' is outside workspace root '">>
    \o PathStr(WorkspaceRoot) \o <<"'">>

\* _resolve_path that accepts every resolved path (no confinement check).
_resolve_path_Unconfined(files, path) ==
  IF path.t # "str"
  THEN [raised |-> TRUE, exc |-> "TypeError", v |-> <<"unsupported operand type(s) for /">>]
  ELSE [raised |-> FALSE, exc |-> "", v |-> JoinResolve(files, path.v)]

\* FileTool._resolve_path: the resolved path, or ToolError when it is not
\* under the workspace root; a path that is no str raises TypeError.
_resolve_path(files, path) ==
  IF path.t # "str"
  THEN [raised |-> TRUE, exc |-> "TypeError", v |-> <<"unsupported operand type(s) for /">>]
  ELSE LET resolved_path == JoinResolve(files, path.v)
       IN IF IsPrefix(WorkspaceRoot, resolved_path)
          THEN [raised |-> FALSE, exc |-> "", v |-> resolved_path]
          ELSE [raised |-> TRUE, exc |-> "ToolError", v |-> OutsideWorkspace(path.v)]

\* What a FileTool method hands back: the ToolOutput and the filesystem.
FileFails(files, error) ==
  [out |-> ToolOutput(FALSE, None, Str(error)), fs |-> files]
FileSucceeds(files, data) ==
  [out |-> ToolOutput(TRUE, Dict(data), None), fs |-> files]

\* The text of a path input inside an error message.
Shown(value) == IF value.t = "str" THEN value.v ELSE <<"<", value.t, ">">>

\* The line ends of a text.
CR == "\r"
LF == "\n"

\* Path.read_text opens the file in text mode with the default newline
\* handling: "\r\n" and a lone "\r" are both read as "\n".
RECURSIVE universal_newlines(_)
universal_newlines(data) ==
  IF data = <<>> THEN <<>>
  ELSE IF Head(data) = CR
  THEN IF Len(data) >= 2 /\ data[2] = LF
       THEN <<LF>> \o universal_newlines(Tail(Tail(data)))
       ELSE <<LF>> \o universal_newlines(Tail(data))
  ELSE <<Head(data)>> \o universal_newlines(Tail(data))

\* FileTool._read_text
_read_text(files, inputs) ==
  IF "path" \notin DOMAIN inputs
  THEN FileFails(files, <<"Missing 'path' in inputs">>)
  ELSE LET r == _resolve_path(files, inputs["path"])
           path == r.v
       IN IF r.raised /\ r.exc = "ToolError" THEN FileFails(files, r.v)
          ELSE IF r.raised THEN FileFails(files, <<"Error reading file: ">> \o r.v)
          ELSE IF UnderFile(files, path)
          THEN FileFails(files, <<"Error reading file: ", "Not a directory">>)
          ELSE IF ~Exists(files, path)
          THEN FileFails(files, <<"File not found: ">> \o Shown(inputs["path"]))
          ELSE IF IsDir(files, path)
          THEN FileFails(files, <<"Path is a directory, not a file: ">>
                                  \o Shown(inputs["path"]))
          ELSE FileSucceeds(files, [content |-> Str(universal_newlines(files[path].data)),
                                    path |-> Str(PathStr(path))])

\* path.parent.mkdir(parents=True, exist_ok=True): the missing ancestors of
\* path become directories.
MakeParents(files, path) ==
  LET missing == { SubSeq(path, 1, n) : n \in 1..(Len(path) - 1) } \ DOMAIN files
  IN [q \in DOMAIN files \cup missing |->
        IF q \in DOMAIN files THEN files[q] ELSE DirNode]

PutFile(files, path, content) ==
  [q \in DOMAIN files \cup {path} |->
     IF q = path THEN FileNode(content) ELSE files[q]]

\* _write_text that looks at the mode only after the parent directories
\* were made.
_write_text_LateModeCheck(files, inputs) ==
  IF "path" \notin DOMAIN inputs
  THEN FileFails(files, <<"Missing 'path' in inputs">>)
  ELSE IF "content" \notin DOMAIN inputs
  THEN FileFails(files, <<"Missing 'content' in inputs">>)
  ELSE LET mode == IF "mode" \in DOMAIN inputs THEN inputs["mode"]
                   ELSE Str(<<"overwrite">>)
           r == _resolve_path(files, inputs["path"])
           path == r.v
           content == inputs["content"]
           made == MakeParents(files, path)
       IN IF r.raised /\ r.exc = "ToolError" THEN FileFails(files, r.v)
          ELSE IF r.raised THEN FileFails(files, <<"Error writing file: ">> \o r.v)
          ELSE IF UnderFile(files, path)
          THEN FileFails(files, <<"Error writing file: ", "Not a directory">>)
          ELSE IF mode \notin {Str(<<"overwrite">>), Str(<<"append">>)}
          THEN FileFails(made, <<"Invalid mode: ">> \o Shown(mode)
                                 \o <<". Must be 'overwrite' or 'append'">>)
          ELSE IF IsDir(made, path)
          THEN FileFails(made, <<"Error writing file: ", "Is a directory">>)
          ELSE IF content.t # "str"
          THEN FileFails(made, <<"Error writing file: ", "data must be str">>)
          ELSE FileSucceeds(
                 PutFile(made, path,
                         IF mode = Str(<<"append">>) /\ Exists(made, path)
                         THEN made[path].data \o content.v ELSE content.v),
                 [path |-> Str(PathStr(path)), bytes_written |-> Num(Len(content.v))])

\* FileTool._write_text
_write_text(files, inputs) ==
  IF "path" \notin DOMAIN inputs
  THEN FileFails(files, <<"Missing 'path' in inputs">>)
  ELSE IF "content" \notin DOMAIN inputs
  THEN FileFails(files, <<"Missing 'content' in inputs">>)
  ELSE LET mode == IF "mode" \in DOMAIN inputs THEN inputs["mode"]
                   ELSE Str(<<"overwrite">>)
           r == _resolve_path(files, inputs["path"])
           path == r.v
           content == inputs["content"]
           made == MakeParents(files, path)
       IN IF mode \notin {Str(<<"overwrite">>), Str(<<"append">>)}
          THEN FileFails(files, <<"Invalid mode: ">> \o Shown(mode)
                                  \o <<". Must be 'overwrite' or 'append'">>)
          ELSE IF r.raised /\ r.exc = "ToolError" THEN FileFails(files, r.v)
          ELSE IF r.raised THEN FileFails(files, <<"Error writing file: ">> \o r.v)
          ELSE IF UnderFile(files, path)
          THEN \* mkdir raises: an ancestor is a regular file
               FileFails(files, <<"Error writing file: ", "Not a directory">>)
          ELSE IF IsDir(made, path)
          THEN \* open raises IsADirectoryError after the parents were made
               FileFails(made, <<"Error writing file: ", "Is a directory">>)
          ELSE IF mode = Str(<<"append">>)
          THEN \* open("a") creates the file, then write refuses what is no str
               IF content.t # "str"
               THEN FileFails(IF Exists(made, path) THEN made
                              ELSE PutFile(made, path, <<>>),
                              <<"Error writing file: ", "write() argument must be str">>)
               ELSE FileSucceeds(
                      PutFile(made, path,
                              (IF Exists(made, path) THEN made[path].data ELSE <<>>)
                                \o content.v),
                      [path |-> Str(PathStr(path)), bytes_written |-> Num(Len(content.v))])
          ELSE \* Path.write_text refuses what is no str before it opens the file
               IF content.t # "str"
               THEN FileFails(made, <<"Error writing file: ", "data must be str">>)
               ELSE FileSucceeds(
                      PutFile(made, path, content.v),
                      [path |-> Str(PathStr(path)), bytes_written |-> Num(Len(content.v))])

\* fnmatch.fnmatch(name, pattern) for the patterns "*" and a plain name.
FnMatch(name, pattern) == pattern = <<"*">> \/ pattern = <<name>>

\* FileTool._list_dir; iterdir gives the entries in no particular order, so
\* they are kept as a set.
_list_dir(files, inputs) ==
  IF "path" \notin DOMAIN inputs
  THEN FileFails(files, <<"Missing 'path' in inputs">>)
  ELSE LET r == _resolve_path(files, inputs["path"])
           path == r.v
           pattern == IF "pattern" \in DOMAIN inputs THEN inputs["pattern"]
                      ELSE Str(<<"*">>)
           children == { q \in DOMAIN files : Len(q) = Len(path) + 1 /\ IsPrefix(path, q) }
           target(q) == IF files[q].kind = "link" THEN files[q].data ELSE q
           entries ==
             { [name |-> q[Len(q)],
                path |-> Str(Tail(PathStr(SubSeq(q, Len(WorkspaceRoot) + 1, Len(q))))),
                is_dir |-> IsDir(files, target(q)),
                is_file |-> IsFile(files, target(q)),
                size |-> IF IsFile(files, target(q))
                         THEN Num(Len(files[target(q)].data)) ELSE None] :
               q \in { c \in children : FnMatch(c[Len(c)], pattern.v) } }
       IN IF r.raised /\ r.exc = "ToolError" THEN FileFails(files, r.v)
          ELSE IF r.raised THEN FileFails(files, <<"Error listing directory: ">> \o r.v)
          ELSE IF ~IsDir(files, path)
          THEN FileFails(files, <<"Path is not a directory: ">> \o Shown(inputs["path"]))
          ELSE IF pattern.t # "str" /\ children # {}
          THEN \* fnmatch raises TypeError on the first entry
               FileFails(files, <<"Error listing directory: ", "expected str">>)
          ELSE FileSucceeds(files, [path |-> Str(PathStr(path)),
                                    entries |-> [t |-> "entries", v |-> entries],
                                    count |-> Num(Cardinality(entries))])

\* FileTool.execute
FileTool_execute(files, inputs) ==
  LET action == IF "action" \in DOMAIN inputs THEN inputs["action"] ELSE None
  IN IF action = Str(<<"read_text">>) THEN _read_text(files, inputs)
     ELSE IF action = Str(<<"write_text">>) THEN _write_text(files, inputs)
     ELSE IF action = Str(<<"list_dir">>) THEN _list_dir(files, inputs)
     ELSE FileFails(files, <<"Unknown action: ">> \o Shown(action)
                             \o <<". Valid actions: read_text, write_text, list_dir">>)

\* The filesystem the tool starts on: the workspace with a note and a link
\* that leads out of it, and a directory outside the workspace.
InitialFiles ==
  ( <<"ws">> :> DirNode
    @@ <<"ws", "notes.txt">> :> FileNode(<<"Hello">>)
    @@ <<"ws", "link">> :> LinkNode(<<"etc">>)
    @@ <<"etc">> :> DirNode
    @@ <<"etc", "passwd">> :> FileNode(<<"root">>) )

\* The inputs FileTool.execute is called with. Absent marks a key left out.
Absent == [t |-> "absent", v |-> <<>>]

InputsOf(pairs) ==
  [key \in { k \in DOMAIN pairs : pairs[k] # Absent } |-> pairs[key]]

InsidePaths ==
  { Str(<<"notes.txt">>), Str(<<"out", "/", "summary.md">>), Str(<<"out">>),
    Str(<<"/", "ws", "/", "out", "/", "..", "/", "notes.txt">>) }
OutsidePaths ==
  { Str(<<"/", "etc", "/", "passwd">>), Str(<<"..", "/", "tmp", "/", "new", "/", "x.txt">>),
    Str(<<"link", "/", "passwd">>) }
PathOptions == InsidePaths \cup OutsidePaths \cup {Absent, Num(5)}

\* The paths of the well-formed write requests: files, not the directory.
WritePaths == (InsidePaths \ {Str(<<"out">>)}) \cup OutsidePaths

FileInputs ==
  { InputsOf([action |-> a, path |-> p]) :
      a \in {Str(<<"read_text">>), Str(<<"list_dir">>), Str(<<"delete">>), Absent},
      p \in PathOptions }
  \cup { InputsOf([action |-> Str(<<"list_dir">>), path |-> Str(<<"out">>), pattern |-> pat]) :
           pat \in {Str(<<"*">>), Str(<<"summary.md">>), Num(5)} }
  \cup { InputsOf([action |-> Str(<<"write_text">>), path |-> p, content |-> c, mode |-> m]) :
           p \in WritePaths, c \in {Str(<<"a">>), Str(<<"b">>)},
           m \in {Absent, Str(<<"overwrite">>), Str(<<"append">>)} }
  \cup { InputsOf([action |-> Str(<<"write_text">>), path |-> Str(<<"notes.txt">>),
                   content |-> c, mode |-> m]) :
           c \in {Str(<<CR>>), Str(<<LF>>)}, m \in {Absent, Str(<<"append">>)} }
  \cup { InputsOf([action |-> Str(<<"write_text">>), path |-> p, content |-> c, mode |-> m]) :
           p \in PathOptions \ InsidePaths,
           c \in {Absent, Num(5)}, m \in {Absent, Str(<<"append">>)} }
  \cup { InputsOf([action |-> Str(<<"write_text">>), path |-> p, content |-> c, mode |-> m]) :
           p \in {Str(<<"out">>), Str(<<"out", "/", "summary.md">>)},
           c \in {Absent, Num(5), Str(<<"a">>)},
           m \in {Absent, Str(<<"append">>), Str(<<"bogus">>)} }
  \cup { InputsOf([action |-> Str(<<"write_text">>), path |-> p, content |-> Str(<<"a">>),
                   mode |-> Str(<<"bogus">>)]) : p \in PathOptions }

\* --------------------------------------------------------------- ShellTool
\* A command line is a str whose tokens are its characters.
\* config.py:33 and 38: Settings.shell_whitelist and Settings.shell_blacklist.
SettingsWhitelist ==
  { <<"l", "s">>,
    <<"c", "a", "t">>,
    <<"g", "r", "e", "p">>,
    <<"w", "c">>,
    <<"h", "e", "a", "d">>,
    <<"t", "a", "i", "l">>,
    <<"p", "y", "t", "h", "o", "n", "3">>,
    <<"m", "k", "d", "i", "r">> }
SettingsBlacklist ==
  { <<"r", "m">>,
    <<"m", "v">>,
    <<"s", "u", "d", "o">>,
    <<"c", "u", "r", "l">>,
    <<"w", "g", "e", "t">>,
    <<"s", "s", "h">>,
    <<"c", "h", "m", "o", "d">>,
    <<"c", "h", "o", "w", "n">> }

\* ShellTool.__init__: `set(whitelist or settings.shell_whitelist)`, so an
\* argument that is None or an empty list gives the settings' list.
ListOrDefault(arg, default) ==
  IF Truthy(arg) THEN { arg.v[n] : n \in 1..Len(arg.v) } ELSE default

\* str.lower on one character.
UpperToLower ==
  [c \in {"A", "B", "C", "D", "E", "F", "G", "H", "I", "J", "K", "L", "M", "N", "O", "P", "Q", "R", "S", "T", "U", "V", "W", "X", "Y", "Z"} |->
     CASE c = "A" -> "a"
       [] c = "B" -> "b"
       [] c = "C" -> "c"
       [] c = "D" -> "d"
       [] c = "E" -> "e"
       [] c = "F" -> "f"
       [] c = "G" -> "g"
       [] c = "H" -> "h"
       [] c = "I" -> "i"
       [] c = "J" -> "j"
       [] c = "K" -> "k"
       [] c = "L" -> "l"
       [] c = "M" -> "m"
       [] c = "N" -> "n"
       [] c = "O" -> "o"
       [] c = "P" -> "p"
       [] c = "Q" -> "q"
       [] c = "R" -> "r"
       [] c = "S" -> "s"
       [] c = "T" -> "t"
       [] c = "U" -> "u"
       [] c = "V" -> "v"
       [] c = "W" -> "w"
       [] c = "X" -> "x"
       [] c = "Y" -> "y"
       [] c = "Z" -> "z"]
LowerChar(c) == IF c \in DOMAIN UpperToLower THEN UpperToLower[c] ELSE c
Lower(s) == [n \in 1..Len(s) |-> LowerChar(s[n])]

\* `pattern in text`
Contains(text, pattern) ==
  \E k \in 0..(Len(text) - Len(pattern)) :
    SubSeq(text, k + 1, k + Len(pattern)) = pattern

\* shlex.split on the characters still to read: blanks separate words, a
\* single quote opens and closes a quoted stretch that belongs to the word
\* around it; the end of the text inside quotes raises ValueError.
RECURSIVE ShlexScan(_, _, _, _, _)
ShlexScan(rest, word, inword, inquote, words) ==
  IF rest = <<>>
  THEN IF inquote THEN Raised(<<"No closing quotation">>)
       ELSE Returned(IF inword THEN Append(words, word) ELSE words)
  ELSE LET c == Head(rest)
       IN IF inquote
          THEN IF c = "'"
               THEN ShlexScan(Tail(rest), word, TRUE, FALSE, words)
               ELSE ShlexScan(Tail(rest), Append(word, c), TRUE, TRUE, words)
          ELSE IF c = "'"
          THEN ShlexScan(Tail(rest), word, TRUE, TRUE, words)
          ELSE IF c = " "
          THEN IF inword
               THEN ShlexScan(Tail(rest), <<>>, FALSE, FALSE, Append(words, word))
               ELSE ShlexScan(Tail(rest), <<>>, FALSE, FALSE, words)
          ELSE ShlexScan(Tail(rest), Append(word, c), TRUE, FALSE, words)

shlex_split(s) == ShlexScan(s, <<>>, FALSE, FALSE, <<>>)

\* shell_tool.py:106-113
dangerous_patterns ==
  <<<<"r", "m", " ", "-", "r", "f", " ", "/">>,
    <<"r", "m", " ", "-", "r", "f", " ", "/", "*">>,
    <<">", " ", "/">>,
    <<"d", "d", " ", "i", "f", "=">>,
    <<"m", "k", "f", "s">>,
    <<":", "(", ")", "{", ":", "|", ":", "&", "}", ";", ":">>>>

\* shell_tool.py:76: the default of the `timeout` input.
DefaultTimeout == 30

\* What subprocess.run may do with a command: exit with a code, run out of
\* time, or fail to start.
ProcessOutcomes ==
  { [kind |-> "exit", return_code |-> 0, stdout |-> <<"out">>, stderr |-> <<>>],
    [kind |-> "exit", return_code |-> 1, stdout |-> <<>>, stderr |-> <<"err">>],
    [kind |-> "exit", return_code |-> 2, stdout |-> <<"out">>, stderr |-> <<>>],
    [kind |-> "timeout", return_code |-> 0, stdout |-> <<>>, stderr |-> <<>>],
    [kind |-> "oserror", return_code |-> 0, stdout |-> <<>>, stderr |-> <<>>] }

\* What ShellTool.execute hands back: the ToolOutput (or the exception) and
\* the command given to subprocess.run, None when none was.
ShellRejects(error) == [out |-> ToolOutput(FALSE, None, Str(error)), ran |-> None]

\* The scan without the lower-casing: patterns are looked up in the command
\* as it was typed.
IsDangerous_CaseSensitive(cmd) ==
  \E n \in 1..Len(dangerous_patterns) : Contains(cmd, dangerous_patterns[n])

\* shell_tool.py:114-116: some pattern occurs in `cmd.lower()`.
IsDangerous(cmd) ==
  \E n \in 1..Len(dangerous_patterns) : Contains(Lower(cmd), dangerous_patterns[n])

\* The policy with the allow-list consulted first: an allowed command is
\* not looked up in the deny-list.
ShellPolicy_AllowFirst(wl, bl, base_cmd, cmd) ==
  IF base_cmd \in wl
  THEN IF IsDangerous(cmd) THEN "dangerous" ELSE "run"
  ELSE IF base_cmd \in bl THEN "blacklisted" ELSE "not_allowed"

\* shell_tool.py:89-121: the deny-list, then the allow-list, then the
\* dangerous patterns in the lower-cased command.
ShellPolicy(wl, bl, base_cmd, cmd) ==
  IF base_cmd \in bl THEN "blacklisted"
  ELSE IF base_cmd \notin wl THEN "not_allowed"
  ELSE IF IsDangerous(cmd) THEN "dangerous"
  ELSE "run"

\* The first dangerous pattern the command contains.
FirstPattern(cmd) ==
  dangerous_patterns[CHOOSE n \in 1..Len(dangerous_patterns) :
                       /\ Contains(Lower(cmd), dangerous_patterns[n])
                       /\ \A m \in 1..(n - 1) : ~Contains(Lower(cmd), dangerous_patterns[m])]

\* A command that exits non-zero reported without its data.
RunCommand_NoDataOnFailure(cmd, timeout, proc) ==
  IF timeout.t # "int"
  THEN [out |-> ToolOutput(FALSE, None,
                           Str(<<"Error executing command: ", "unsupported operand type(s)">>)),
        ran |-> Str(cmd)]
  ELSE IF proc.kind = "timeout"
  THEN [out |-> ToolOutput(FALSE, None,
                           Str(<<"Command timed out after ", ToString(timeout.v), " seconds">>)),
        ran |-> Str(cmd)]
  ELSE IF proc.kind = "oserror"
  THEN [out |-> ToolOutput(FALSE, None, Str(<<"Error executing command: ", "OSError">>)),
        ran |-> Str(cmd)]
  ELSE [out |-> ToolOutput(proc.return_code = 0,
                           IF proc.return_code = 0
                           THEN Dict([stdout |-> Str(proc.stdout), stderr |-> Str(proc.stderr),
                                      return_code |-> Num(proc.return_code),
                                      command |-> Str(cmd)])
                           ELSE None,
                           IF proc.return_code # 0 THEN Str(proc.stderr) ELSE None),
        ran |-> Str(cmd)]

\* shell_tool.py:124-156: the command runs under the shell. subprocess.run
\* starts the shell before it looks at the timeout, so a timeout that is no
\* number raises TypeError (caught at line 155) with the process started.
RunCommand(cmd, timeout, proc) ==
  IF timeout.t # "int"
  THEN [out |-> ToolOutput(FALSE, None,
                           Str(<<"Error executing command: ", "unsupported operand type(s)">>)),
        ran |-> Str(cmd)]
  ELSE IF proc.kind = "timeout"
  THEN [out |-> ToolOutput(FALSE, None,
                           Str(<<"Command timed out after ", ToString(timeout.v), " seconds">>)),
        ran |-> Str(cmd)]
  ELSE IF proc.kind = "oserror"
  THEN [out |-> ToolOutput(FALSE, None, Str(<<"Error executing command: ", "OSError">>)),
        ran |-> Str(cmd)]
  ELSE [out |-> ToolOutput(proc.return_code = 0,
                           Dict([stdout |-> Str(proc.stdout), stderr |-> Str(proc.stderr),
                                 return_code |-> Num(proc.return_code),
                                 command |-> Str(cmd)]),
                           IF proc.return_code # 0 THEN Str(proc.stderr) ELSE None),
        ran |-> Str(cmd)]

\* ShellTool.execute; shlex.split raises AttributeError for a cmd that is no
\* str, which execute does not catch.
ShellTool_execute(wl, bl, inputs, proc) ==
  IF "cmd" \notin DOMAIN inputs
  THEN ShellRejects(<<"Missing 'cmd' in inputs">>)
  ELSE LET cmd == inputs["cmd"]
           timeout == IF "timeout" \in DOMAIN inputs THEN inputs["timeout"]
                      ELSE Num(DefaultTimeout)
           parts == shlex_split(cmd.v)
           base_cmd == parts.v[1]
           policy == ShellPolicy(wl, bl, base_cmd, cmd.v)
       IN IF cmd.t # "str"
          THEN [out |-> ToolRaises(<<"object has no attribute 'read'">>), ran |-> None]
          ELSE IF parts.raised
          THEN ShellRejects(<<"Invalid command syntax: ">> \o parts.v)
          ELSE IF parts.v = <<>> THEN ShellRejects(<<"Empty command">>)
          ELSE IF policy = "blacklisted"
          THEN ShellRejects(<<"Command '">> \o base_cmd \o <<"' is not allowed (blacklisted)">>)
          ELSE IF policy = "not_allowed"
          THEN ShellRejects(<<"Command '">> \o base_cmd \o <<"' is not in the allowed list">>)
          ELSE IF policy = "dangerous"
          THEN ShellRejects(<<"Command contains dangerous pattern: ">> \o FirstPattern(cmd.v))
          ELSE RunCommand(cmd.v, timeout, proc)

\* The arguments ShellTool is constructed with, and the inputs it is called with.
WhitelistArgs ==
  { None, List(<<>>), List(<<<<"l", "s">>>>), List(<<<<"l", "s">>, <<"r", "m">>>>) }
BlacklistArgs ==
  { None, List(<<>>), List(<<<<"r", "m">>>>), List(<<<<"l", "s">>>>) }

\* The `timeout` input: left out, a number, a str.
Timeouts == {Absent, Num(5), Str(<<"soon">>)}

Commands ==
  { Str(<<"l", "s">>),
    Str(<<"l", "s", " ", "-", "l", "a">>),
    Str(<<"r", "m", " ", "-", "r", "f", " ", "*">>),
    Str(<<"'", "r", "m", "'", " ", "x">>),
    Str(<<"l", "s", " ", "'", "x">>),
    Str(<<>>),
    Str(<<"c", "a", "t", " ", "x", " ", ">", " ", "/", "y">>),
    Str(<<"L", "S">>),
    Str(<<"l", "s", ";", " ", "r", "m", " ", "-", "r", "f", " ", "/">>),
    Str(<<"c", "a", "t", " ", "M", "K", "F", "S">>),
    Str(<<"c", "u", "r", "l", " ", "x">>),
    Str(<<"m", "k", "d", "i", "r", " ", "d">>),
    Num(5),
    Absent }

\* ------------------------------------------------------------ ToolRegistry
\* _tools is kept as the sequence of registered tools in insertion order; a
\* tool is an object with a name, told apart from other tools of that name
\* by its identity.
ToolPool == { [name |-> n, id |-> k] : n \in {"file", "shell", "browser"}, k \in 1..2 }
ToolNames == { t.name : t \in ToolPool } \cup {"nonexistent"}

\* base.py:111-120 has
has(tools, name) == \E n \in 1..Len(tools) : tools[n].name = name

\* base.py:92-101 get: `self._tools.get(name)`
get(tools, name) ==
  IF has(tools, name)
  THEN tools[CHOOSE n \in 1..Len(tools) : tools[n].name = name]
  ELSE None

\* base.py:103-109 list_tools
list_tools(tools) == [n \in 1..Len(tools) |-> tools[n].name]

\* register that replaces a tool already registered under the name.
register_Overwrite(tools, tool) ==
  [tools |-> IF has(tools, tool.name)
             THEN [n \in 1..Len(tools) |->
                     IF tools[n].name = tool.name THEN tool ELSE tools[n]]
             ELSE Append(tools, tool),
   ret |-> Returned(None)]

\* base.py:78-90 register: ToolError for a name that is already registered.
register(tools, tool) ==
  IF has(tools, tool.name)
  THEN [tools |-> tools,
        ret |-> Raised(<<"Tool '", tool.name, "' is already registered">>)]
  ELSE [tools |-> Append(tools, tool), ret |-> Returned(None)]

\* --------------------------------------------------------------------- CLI
\* What input() gives _confirm_execution: a line of characters, or EOFError
\* when standard input is closed.
Line(text) == [eof |-> FALSE, text |-> text]
EndOfInput == [eof |-> TRUE, text |-> <<>>]
Answers ==
  { Line(<<"y">>), Line(<<"y", "e", "s">>), Line(<<" ", "Y", " ">>),
    Line(<<"n">>), Line(<<>>), EndOfInput }

\* str.strip on blanks.
RECURSIVE LStrip(_)
LStrip(s) == IF s # <<>> /\ Head(s) = " " THEN LStrip(Tail(s)) ELSE s
RECURSIVE RStrip(_)
RStrip(s) ==
  IF s # <<>> /\ s[Len(s)] = " " THEN RStrip(SubSeq(s, 1, Len(s) - 1)) ELSE s
Strip(s) == RStrip(LStrip(s))

\* cli.py:313-321 _confirm_execution: `input().strip().lower() in ["y", "yes"]`;
\* EOFError propagates to the caller.
_confirm_execution(answer) ==
  IF answer.eof THEN Raised(<<"EOF when reading a line">>)
  ELSE Returned(Lower(Strip(answer.text)) \in {<<"y">>, <<"y", "e", "s">>})

\* What a command did: whether it asked for confirmation, whether it called
\* execute_plan, whether it saved the plan without executing, its exit code.
CliDone(asked, executed, saved, code) ==
  [asked |-> asked, executed |-> executed, saved |-> saved, exit_code |-> code]

\* What execute_plan does for the command: returns a result with an overall
\* status, or raises because the plan could not be persisted.
ExecOutcomes == {SUCCESS, FAILURE, "raises"}

\* cli.py:63-110 `run`. `loaded` is the risk level of the plan load_plan
\* returned, or "load_error". Every typer.Exit raised inside the try block
\* is a RuntimeError, so the `except Exception` at line 108 catches it and
\* exits with code 1.
run(yes, loaded, answer, outcome) ==
  IF loaded = "load_error" THEN CliDone(FALSE, FALSE, FALSE, 1)
  ELSE IF ~yes /\ loaded # LOW
  THEN LET c == _confirm_execution(answer)
       IN IF c.raised THEN CliDone(TRUE, FALSE, FALSE, 1)
          ELSE IF ~c.v THEN CliDone(TRUE, FALSE, FALSE, 1)
          ELSE CliDone(TRUE, TRUE, FALSE, 1)
  ELSE CliDone(FALSE, TRUE, FALSE, 1)

\* cli.py:136-206 _main_command, which `execute` (line 243) calls. `planned`
\* is the risk level of the generated plan, or "init_error" when
\* LLMPlanner() raises, or "planning_error" when generate_plan raises.
_main_command(yes, dry_run, planned, answer, outcome) ==
  IF planned \in {"init_error", "planning_error"} THEN CliDone(FALSE, FALSE, FALSE, 1)
  ELSE IF dry_run
  THEN IF outcome = "raises" THEN CliDone(FALSE, FALSE, FALSE, 1)
       ELSE CliDone(FALSE, FALSE, TRUE, 0)
  ELSE IF ~yes
  THEN LET c == _confirm_execution(answer)
       IN IF c.raised THEN CliDone(TRUE, FALSE, FALSE, 1)
          ELSE IF ~c.v THEN CliDone(TRUE, FALSE, FALSE, 0)
          ELSE CliDone(TRUE, TRUE, FALSE, IF outcome = SUCCESS THEN 0 ELSE 1)
  ELSE IF planned = HIGH THEN CliDone(FALSE, FALSE, FALSE, 1)
  ELSE CliDone(FALSE, TRUE, FALSE, IF outcome = SUCCESS THEN 0 ELSE 1)

\* ------------------------------------------------------------------- state
VARIABLES
  step_outputs,  \* Executor._step_outputs: step id -> recorded output
  runs,          \* the runs directory: timestamp -> files of that run directory
  now,           \* the wall clock, in seconds
  ncalls,        \* execute_plan calls made so far on this Executor
  pc,            \* where the current execute_plan call stands
  plan,          \* its argument plan
  dry_run,       \* its argument dry_run
  i,             \* index of the step the loop is at
  result,        \* its ExecutionResult
  run_dir,       \* the run directory _save_plan returned
  resolved,      \* resolved_inputs of the step being dispatched
  invoked,       \* tool.execute calls of the current call: step, inputs, outcome
  fs,            \* the filesystem FileTool works on: absolute path -> node
  file_in,       \* inputs of the last FileTool.execute call
  file_out,      \* what that call returned
  whitelist,     \* ShellTool.whitelist
  blacklist,     \* ShellTool.blacklist
  shell_in,      \* inputs of the last ShellTool.execute call
  shell_out,     \* what that call returned, or the exception it raised
  shell_ran,     \* the command that call handed to subprocess.run, or None
  shell_proc,    \* what became of the process that call started, or None
  cli_cmd,       \* the CLI command last invoked: "run", "execute", or "none"
  cli_args,      \* its flags, the risk level of its plan, the user's answer
  cli_done,      \* what it did: asked, executed, saved, exit code
  fin_arg,       \* the ExecutionResult finalize is called on
  fin_ret,       \* that result after finalize, or None before the call
  registry,      \* ToolRegistry._tools, in insertion order
  reg_op,        \* the last ToolRegistry call: method and argument
  reg_ret,       \* what it returned, or the exception it raised
  res_arg,       \* the inputs _resolve_inputs is called with
  res_outs,      \* _step_outputs at that call
  res_ret,       \* what the call returned or raised, or None before the call
  planner_pc,    \* where the current LLMPlanner.generate_plan call stands
  llm_replies,   \* what the completion calls of that call gave, in order
  planner_ret,   \* the Plan it returned or the exception it raised, or None
  worker_pc,     \* where ExecutorWorker.run stands
  worker_base,   \* execute_plan calls made on the executor before run began
  signals        \* the signals run has emitted, in order

exec_vars == <<step_outputs, runs, now, ncalls, pc, plan, dry_run, i, result,
               run_dir, resolved, invoked>>
file_vars == <<fs, file_in, file_out>>
shell_vars == <<whitelist, blacklist, shell_in, shell_out, shell_ran, shell_proc>>
tool_vars == <<file_vars, shell_vars>>
cli_vars == <<cli_cmd, cli_args, cli_done>>
fin_vars == <<fin_arg, fin_ret>>
reg_vars == <<registry, reg_op, reg_ret>>
res_vars == <<res_arg, res_outs, res_ret>>
planner_vars == <<planner_pc, llm_replies, planner_ret>>
worker_vars == <<worker_pc, worker_base, signals>>
side_vars == <<cli_vars, fin_vars, reg_vars, res_vars, planner_vars, worker_vars>>
vars == <<exec_vars, file_vars, shell_vars, side_vars>>

NoFile == None
File(content) == [t |-> "file", v |-> content]
NoPlan == [goal |-> "", risk_level |-> "", steps |-> <<>>]
EmptyDir == [plan |-> NoFile, trace |-> NoFile, result |-> NoFile]

\* Outside a call: before the first one, after a return, after a raise.
Idle == {"idle", "returned", "raised"}

ExecInit ==
  /\ step_outputs = <<>>
  /\ runs = <<>>
  /\ now = 0
  /\ ncalls = 0
  /\ pc = "idle"
  /\ plan = NoPlan
  /\ dry_run = FALSE
  /\ i = 0
  /\ result = ExecutionResult(NoPlan)
  /\ run_dir = 0
  /\ resolved = <<>>
  /\ invoked = <<>>

FileInit ==
  /\ fs = InitialFiles
  /\ file_in = <<>>
  /\ file_out = ToolOutput(TRUE, None, None)

\* ShellTool(): both lists from the settings.
ShellDefault ==
  /\ whitelist = ListOrDefault(None, SettingsWhitelist)
  /\ blacklist = ListOrDefault(None, SettingsBlacklist)
  /\ shell_in = <<>>
  /\ shell_out = ToolOutput(TRUE, None, None)
  /\ shell_ran = None
  /\ shell_proc = None

\* ShellTool(whitelist, blacklist)
ShellInit ==
  /\ \E wl \in WhitelistArgs, bl \in BlacklistArgs :
       /\ whitelist = ListOrDefault(wl, SettingsWhitelist)
       /\ blacklist = ListOrDefault(bl, SettingsBlacklist)
  /\ shell_in = <<>>
  /\ shell_out = ToolOutput(TRUE, None, None)
  /\ shell_ran = None
  /\ shell_proc = None

\* No CLI command has been invoked.
CliInit ==
  /\ cli_cmd = "none"
  /\ cli_args = <<>>
  /\ cli_done = CliDone(FALSE, FALSE, FALSE, 0)

\* finalize has not been called.
FinIdle ==
  /\ fin_arg = ExecutionResult(NoPlan)
  /\ fin_ret = None

\* ToolRegistry(): no tool is registered.
RegInit ==
  /\ registry = <<>>
  /\ reg_op = [op |-> "init", arg |-> None]
  /\ reg_ret = Returned(None)

\* _resolve_inputs has not been called.
ResIdle ==
  /\ res_arg = <<>>
  /\ res_outs = <<>>
  /\ res_ret = None

\* generate_plan has not been called.
PlannerInit ==
  /\ planner_pc = "idle"
  /\ llm_replies = <<>>
  /\ planner_ret = None

\* The worker has not run.
WorkerInit ==
  /\ worker_pc = "idle"
  /\ worker_base = 0
  /\ signals = <<>>

SideInit == CliInit /\ FinIdle /\ RegInit /\ ResIdle /\ PlannerInit /\ WorkerInit

Init == ExecInit /\ FileInit /\ ShellDefault /\ SideInit

\* ------------------------------------------------------------ execute_plan
\* A failed step that is tried again.
OnFailure_Retry == [pc |-> "dispatch", i |-> i]

\* A failed step that does not end the loop (`continue` for `break`).
OnFailure_Continue == [pc |-> "loop", i |-> i + 1]

\* executor.py:121 and 126, `break`: a failed step ends the loop; the index
\* stays at the failed step and the call goes on to finalize.
OnFailure == [pc |-> "finalize", i |-> i]

\* The trace of the step the loop is at.
SetTrace(r, n, trace) == [r EXCEPT !.traces[n] = trace]

\* ------------------------------------------------------------- JSON files
\* model_dump_json on a value: the JSON text, as a tree of tagged nodes.
\* None becomes null, a bool true or false, a str a string, a list an array
\* and a dict an object.
RECURSIVE to_json(_)
to_json(x) ==
  CASE x.t = "none" -> [t |-> "null", v |-> <<>>]
    [] x.t = "bool" -> [t |-> IF x.v THEN "true" ELSE "false", v |-> <<>>]
    [] x.t = "int" -> [t |-> "number", v |-> <<x.v>>]
    [] x.t = "str" -> [t |-> "string", v |-> x.v]
    [] x.t = "list" -> [t |-> "array", v |-> [n \in DOMAIN x.v |-> to_json(x.v[n])]]
    [] x.t = "dict" -> [t |-> "object", v |-> [k \in DOMAIN x.v |-> to_json(x.v[k])]]

\* The value a JSON tree is parsed to where the field's type is open
\* (`dict`, `Any`).
RECURSIVE from_json(_)
from_json(js) ==
  CASE js.t = "null" -> None
    [] js.t = "true" -> Bool(TRUE)
    [] js.t = "false" -> Bool(FALSE)
    [] js.t = "number" -> Num(js.v[1])
    [] js.t = "string" -> Str(js.v)
    [] js.t = "array" -> List([n \in DOMAIN js.v |-> from_json(js.v[n])])
    [] js.t = "object" -> Dict([k \in DOMAIN js.v |-> from_json(js.v[k])])

JsonObject(fields) == [t |-> "object", v |-> fields]
JsonArray(items) == [t |-> "array", v |-> items]
IsJsonObject(js, keys) == js.t = "object" /\ keys \subseteq DOMAIN js.v

\* Plan.model_dump_json: a step and a plan as JSON objects; the risk level
\* is written as its enum value.
StepJson(s) ==
  JsonObject([id |-> to_json(Str(s.id)),
              description |-> to_json(Str(s.description)),
              tool |-> to_json(Str(<<s.tool>>)),
              inputs |-> to_json(Dict(s.inputs))])

PlanJson(p) ==
  JsonObject([goal |-> to_json(Str(<<p.goal>>)),
              risk_level |-> to_json(Str(<<p.risk_level>>)),
              steps |-> JsonArray([n \in DOMAIN p.steps |-> StepJson(p.steps[n])])])

\* Plan.model_validate_json accepts an object whose goal is a string, whose
\* risk_level is one of the enum's values and whose steps are objects with
\* string id, description and tool and an object for inputs.
StepValid(js) ==
  /\ IsJsonObject(js, {"id", "description", "tool", "inputs"})
  /\ js.v.id.t = "string"
  /\ js.v.description.t = "string"
  /\ js.v.tool.t = "string" /\ Len(js.v.tool.v) = 1
  /\ js.v.inputs.t = "object"

PlanValid(js) ==
  /\ IsJsonObject(js, {"goal", "risk_level", "steps"})
  /\ js.v.goal.t = "string" /\ Len(js.v.goal.v) = 1
  /\ js.v.risk_level.t = "string"
  /\ js.v.risk_level.v \in { <<r>> : r \in RiskLevels }
  /\ js.v.steps.t = "array"
  /\ \A n \in DOMAIN js.v.steps.v : StepValid(js.v.steps.v[n])

PlanFromJson(js) ==
  [goal |-> js.v.goal.v[1],
   risk_level |-> js.v.risk_level.v[1],
   steps |-> [n \in DOMAIN js.v.steps.v |->
                LET s == js.v.steps.v[n].v
                IN [id |-> s.id.v, description |-> s.description.v,
                    tool |-> s.tool.v[1], inputs |-> from_json(s.inputs).v]]]

\* The run directory is made but plan.json is not written into it.
SavePlan_DirOnly(dirs, timestamp, p) ==
  IF timestamp \in DOMAIN dirs THEN dirs ELSE (timestamp :> EmptyDir) @@ dirs

\* Executor._save_plan: the run directory is named by the clock's second;
\* mkdir(exist_ok=True) keeps a directory that is already there, and
\* plan.json is (over)written in it.
SavePlan(dirs, timestamp, p) ==
  IF timestamp \in DOMAIN dirs
  THEN [dirs EXCEPT ![timestamp].plan = File(PlanJson(p))]
  ELSE (timestamp :> [EmptyDir EXCEPT !.plan = File(PlanJson(p))]) @@ dirs

\* TraceEntry.model_dump_json (trace.py:19-50): every field is written by
\* the value it holds, whatever type the field declares.
TraceJson(t) ==
  JsonObject([step_id |-> to_json(Str(t.step_id)),
              tool |-> to_json(Str(<<t.tool>>)),
              status |-> to_json(Str(<<t.status>>)),
              error |-> to_json(t.error),
              inputs |-> to_json(Dict(t.inputs)),
              outputs |-> to_json(t.outputs),
              end_time |-> to_json(IF t.end_time THEN Str(<<"time">>) ELSE None)])

\* ExecutionResult.model_dump_json (trace.py:101-126).
ResultJson(r) ==
  JsonObject([plan_goal |-> to_json(Str(<<r.plan_goal>>)),
              plan_risk_level |-> to_json(Str(<<r.plan_risk_level>>)),
              total_steps |-> to_json(Num(r.total_steps)),
              successful_steps |-> to_json(Num(r.successful_steps)),
              failed_steps |-> to_json(Num(r.failed_steps)),
              skipped_steps |-> to_json(Num(r.skipped_steps)),
              overall_status |-> to_json(Str(<<r.overall_status>>)),
              end_time |-> to_json(IF r.end_time THEN Str(<<"time">>) ELSE None),
              traces |-> JsonArray([n \in DOMAIN r.traces |-> TraceJson(r.traces[n])]),
              produced_files |-> to_json(List(r.produced_files))])

\* TraceEntry validation: step_id and tool are strings, status one of the
\* StepStatus values, error a string or null, inputs an object, outputs an
\* object or null (`dict | None`), end_time a string or null.
TraceValid(js) ==
  /\ IsJsonObject(js, {"step_id", "tool", "status", "error", "inputs",
                       "outputs", "end_time"})
  /\ js.v.step_id.t = "string"
  /\ js.v.tool.t = "string"
  /\ js.v.status.t = "string"
  /\ js.v.status.v \in { <<st>> : st \in {PENDING, RUNNING, SUCCESS, FAILURE, SKIPPED} }
  /\ js.v.error.t \in {"string", "null"}
  /\ js.v.inputs.t = "object"
  /\ js.v.outputs.t \in {"object", "null"}
  /\ js.v.end_time.t \in {"string", "null"}

\* ExecutionResult validation: strings, integers, a StepStatus, a list of
\* valid traces and a list of strings.
ResultValid(js) ==
  /\ IsJsonObject(js, {"plan_goal", "plan_risk_level", "total_steps",
                       "successful_steps", "failed_steps", "skipped_steps",
                       "overall_status", "end_time", "traces", "produced_files"})
  /\ js.v.plan_goal.t = "string"
  /\ js.v.plan_risk_level.t = "string"
  /\ \A k \in {"total_steps", "successful_steps", "failed_steps", "skipped_steps"} :
       js.v[k].t = "number"
  /\ js.v.overall_status.t = "string"
  /\ js.v.overall_status.v \in { <<st>> : st \in {PENDING, RUNNING, SUCCESS, FAILURE, SKIPPED} }
  /\ js.v.end_time.t \in {"string", "null"}
  /\ js.v.traces.t = "array"
  /\ \A n \in DOMAIN js.v.traces.v : TraceValid(js.v.traces.v[n])
  /\ js.v.produced_files.t = "array"
  /\ \A n \in DOMAIN js.v.produced_files.v : js.v.produced_files.v[n].t = "string"

ResultFromJson(js) ==
  [plan_goal |-> js.v.plan_goal.v[1],
   plan_risk_level |-> js.v.plan_risk_level.v[1],
   total_steps |-> js.v.total_steps.v[1],
   successful_steps |-> js.v.successful_steps.v[1],
   failed_steps |-> js.v.failed_steps.v[1],
   skipped_steps |-> js.v.skipped_steps.v[1],
   overall_status |-> js.v.overall_status.v[1],
   end_time |-> js.v.end_time.t = "string",
   traces |-> [n \in DOMAIN js.v.traces.v |->
                 LET t == js.v.traces.v[n].v
                 IN [step_id |-> t.step_id.v, tool |-> t.tool.v[1],
                     inputs |-> from_json(t.inputs).v,
                     status |-> t.status.v[1], error |-> from_json(t.error),
                     outputs |-> from_json(t.outputs),
                     end_time |-> t.end_time.t = "string"]],
   produced_files |-> from_json(js.v.produced_files).v]

\* trace.jsonl that keeps the first trace only.
SaveTraces_FirstTraceOnly(dirs, dir, r) ==
  [dirs EXCEPT ![dir].trace =
                 File([n \in DOMAIN r.traces \cap {1} |-> TraceJson(r.traces[n])]),
               ![dir].result = File(ResultJson(r))]

\* Executor._save_traces: trace.jsonl holds one line per trace, result.json
\* the result.
SaveTraces(dirs, dir, r) ==
  [dirs EXCEPT ![dir].trace = File([n \in DOMAIN r.traces |-> TraceJson(r.traces[n])]),
               ![dir].result = File(ResultJson(r))]

\* Executor.load_trace on a run directory: the result that result.json
\* validates to; a missing file or a text that does not validate raises
\* ValueError.
load_trace(dirs, dir) ==
  IF dir \notin DOMAIN dirs \/ dirs[dir].result = NoFile
  THEN Raised(<<"Failed to load trace from", ToString(dir)>>)
  ELSE IF ResultValid(dirs[dir].result.v)
       THEN Returned(ResultFromJson(dirs[dir].result.v))
       ELSE Raised(<<"Failed to load trace from", ToString(dir)>>)

\* load_plan that reads the directory's result.json.
load_plan_ReadsResult(dirs, dir) ==
  IF dir \notin DOMAIN dirs \/ dirs[dir].result = NoFile
  THEN Raised(<<"Failed to load plan from", ToString(dir)>>)
  ELSE IF PlanValid(dirs[dir].result.v)
       THEN Returned(PlanFromJson(dirs[dir].result.v))
       ELSE Raised(<<"Failed to load plan from", ToString(dir)>>)

\* Executor.load_plan on a run directory's plan.json: the plan the text
\* validates to; a missing file or a text that does not validate raises
\* ValueError.
load_plan(dirs, dir) ==
  IF dir \notin DOMAIN dirs \/ dirs[dir].plan = NoFile
  THEN Raised(<<"Failed to load plan from", ToString(dir)>>)
  ELSE IF PlanValid(dirs[dir].plan.v)
       THEN Returned(PlanFromJson(dirs[dir].plan.v))
       ELSE Raised(<<"Failed to load plan from", ToString(dir)>>)

\* A call that goes on to its steps when the run directory cannot be made.
ExecutePlanOf_IgnoresDiskError(plans) ==
  /\ pc \in Idle
  /\ ncalls < MaxCalls
  /\ \E p \in plans, d \in BOOLEAN, disk \in {"ok", "mkdir_error", "write_error"} :
       /\ plan' = p
       /\ dry_run' = d
       /\ result' = ExecutionResult(p)
       /\ CASE disk = "ok" ->
                 /\ runs' = SavePlan(runs, now, p)
                 /\ pc' = "loop"
            [] disk = "mkdir_error" ->
                 /\ runs' = runs
                 /\ pc' = "loop"
            [] disk = "write_error" ->
                 /\ runs' = IF now \in DOMAIN runs THEN runs
                             ELSE (now :> EmptyDir) @@ runs
                 /\ pc' = "raised"
  /\ ncalls' = ncalls + 1
  /\ run_dir' = now
  /\ i' = 1
  /\ resolved' = <<>>
  /\ invoked' = <<>>
  /\ UNCHANGED <<tool_vars, side_vars>>
  /\ UNCHANGED <<step_outputs, now>>

\* executor.py:63-77: a new ExecutionResult, then the plan is saved. The disk
\* may refuse the directory or the file, and then the call raises.
ExecutePlanOf(plans) ==
  /\ pc \in Idle
  /\ ncalls < MaxCalls
  /\ \E p \in plans, d \in BOOLEAN, disk \in {"ok", "mkdir_error", "write_error"} :
       /\ plan' = p
       /\ dry_run' = d
       /\ result' = ExecutionResult(p)
       /\ CASE disk = "ok" ->
                 /\ runs' = SavePlan(runs, now, p)
                 /\ pc' = "loop"
            [] disk = "mkdir_error" ->
                 /\ runs' = runs
                 /\ pc' = "raised"
            [] disk = "write_error" ->
                 /\ runs' = IF now \in DOMAIN runs THEN runs
                             ELSE (now :> EmptyDir) @@ runs
                 /\ pc' = "raised"
  /\ ncalls' = ncalls + 1
  /\ run_dir' = now
  /\ i' = 1
  /\ resolved' = <<>>
  /\ invoked' = <<>>
  /\ UNCHANGED <<tool_vars, side_vars>>
  /\ UNCHANGED <<step_outputs, now>>

\* execute_plan(plan, dry_run) on any of the plans of the model.
ExecutePlan == ExecutePlanOf(Plans)

\* executor.py:80-92: the next step gets its trace; in a dry run the trace is
\* marked successful at once and the placeholder output recorded.
NextStep ==
  /\ pc = "loop"
  /\ i <= Len(plan.steps)
  /\ LET step == plan.steps[i]
         trace == TraceEntry(step.id, step.tool, step.inputs)
     IN IF dry_run
        THEN /\ result' = [result EXCEPT
                             !.traces = Append(@, mark_success(trace, DryRunOutput))]
             /\ step_outputs' = (step.id :> DryRunOutput) @@ step_outputs
             /\ i' = i + 1
             /\ pc' = "loop"
        ELSE /\ result' = [result EXCEPT !.traces = Append(@, trace)]
             /\ pc' = "dispatch"
             /\ UNCHANGED <<step_outputs, i>>
  /\ UNCHANGED <<tool_vars, side_vars>>
  /\ UNCHANGED <<runs, now, ncalls, plan, dry_run, run_dir, resolved, invoked>>

\* executor.py:95-105: the inputs are resolved and the tool looked up; an
\* exception of the resolver or a missing tool fails the step and ends the
\* loop; otherwise the trace is marked started.
Dispatch ==
  /\ pc = "dispatch"
  /\ LET step == plan.steps[i]
         r == _resolve_inputs(step.inputs, step_outputs)
         tool == RegistryGet(step.tool)
     IN IF r.raised
        THEN /\ result' = SetTrace(result, i, mark_failure(result.traces[i], r.v))
             /\ pc' = OnFailure.pc
             /\ i' = OnFailure.i
             /\ UNCHANGED resolved
        ELSE IF tool = None
        THEN /\ result' = SetTrace(result, i,
                             mark_failure(result.traces[i],
                                          <<"Tool '", step.tool, "' not found in registry">>))
             /\ pc' = OnFailure.pc
             /\ i' = OnFailure.i
             /\ UNCHANGED resolved
        ELSE /\ result' = SetTrace(result, i, mark_started(result.traces[i]))
             /\ resolved' = r.v
             /\ pc' = "exec"
             /\ UNCHANGED i
  /\ UNCHANGED <<tool_vars, side_vars>>
  /\ UNCHANGED <<step_outputs, runs, now, ncalls, plan, dry_run, run_dir, invoked>>

\* An output that is recorded only when the tool reports success.
RecordOutput_OnSuccess(outs, id, output) ==
  IF output.success THEN (id :> output.data) @@ outs ELSE outs

\* executor.py:109-110, `self._step_outputs[step.id] = output.data`: the
\* payload of the returned ToolOutput replaces whatever the id held.
RecordOutput(outs, id, output) == (id :> output.data) @@ outs

\* Produced files collected newest first.
TrackProducedFiles_Prepend(files, output) ==
  IF /\ Truthy(output.data)
     /\ output.data.t = "dict"
     /\ "path" \in DOMAIN output.data.v
  THEN <<output.data.v["path"]>> \o files
  ELSE files

\* executor.py:115-118, after a success: the "path" of a non-empty dict
\* payload is appended to result.produced_files.
TrackProducedFiles(files, output) ==
  IF /\ Truthy(output.data)
     /\ output.data.t = "dict"
     /\ "path" \in DOMAIN output.data.v
  THEN Append(files, output.data.v["path"])
  ELSE files

\* executor.py:106-126: the tool runs. A returned output is recorded under
\* the step id; success marks the trace and collects the produced path,
\* failure or an exception marks the trace failed and ends the loop.
HandleOutput(output) ==
  LET step == plan.steps[i]
      trace == result.traces[i]
  IN /\ invoked' = Append(invoked, [step |-> i, inputs |-> resolved, output |-> output])
     /\ IF output.raised
        THEN /\ result' = SetTrace(result, i, mark_failure(trace, output.error.v))
             /\ pc' = OnFailure.pc
             /\ i' = OnFailure.i
             /\ UNCHANGED step_outputs
        ELSE /\ step_outputs' = RecordOutput(step_outputs, step.id, output)
             /\ IF output.success
                THEN /\ result' =
                          [SetTrace(result, i,
                                    mark_success(trace, IF Truthy(output.data)
                                                        THEN output.data
                                                        ELSE Dict(<<>>)))
                             EXCEPT !.produced_files = TrackProducedFiles(@, output)]
                     /\ i' = i + 1
                     /\ pc' = "loop"
                ELSE /\ result' =
                          SetTrace(result, i,
                                   mark_failure(trace, IF Truthy(output.error)
                                                       THEN output.error.v
                                                       ELSE <<"Unknown error">>))
                     /\ pc' = OnFailure.pc
                     /\ i' = OnFailure.i

\* executor.py:106-107 with a tool that returns or raises anything a tool
\* may.
ToolExecute ==
  /\ pc = "exec"
  /\ \E output \in ToolOutcomes : HandleOutput(output)
  /\ UNCHANGED <<tool_vars, side_vars>>
  /\ UNCHANGED <<runs, now, ncalls, plan, dry_run, run_dir, resolved>>

\* A failed step that puts the workspace back as it first was.
FileToolExecute_RestoresOnFailure ==
  /\ pc = "exec"
  /\ LET r == FileTool_execute(fs, resolved)
     IN HandleOutput(r.out) /\ fs' = IF r.out.success THEN r.fs ELSE InitialFiles
  /\ UNCHANGED <<file_in, file_out, shell_vars, side_vars>>
  /\ UNCHANGED <<runs, now, ncalls, plan, dry_run, run_dir, resolved>>

\* executor.py:106-107 with the FileTool that create_default_executor
\* registers under "file": the tool acts on the workspace and the executor
\* handles what it returns.
FileToolExecute ==
  /\ pc = "exec"
  /\ LET r == FileTool_execute(fs, resolved)
     IN HandleOutput(r.out) /\ fs' = r.fs
  /\ UNCHANGED <<file_in, file_out, shell_vars, side_vars>>
  /\ UNCHANGED <<runs, now, ncalls, plan, dry_run, run_dir, resolved>>

\* executor.py:80: the loop is over when every step has been taken.
LoopExit ==
  /\ pc = "loop"
  /\ i > Len(plan.steps)
  /\ pc' = "finalize"
  /\ UNCHANGED <<tool_vars, side_vars>>
  /\ UNCHANGED <<step_outputs, runs, now, ncalls, plan, dry_run, i, result,
                 run_dir, resolved, invoked>>

\* executor.py:128-134: the result is finalized, the traces and the summary
\* are written, and the result is returned; the call raises if the disk
\* refuses the files.
Finish ==
  /\ pc = "finalize"
  /\ result' = finalize(result)
  /\ \E disk \in {"ok", "write_error"} :
       IF disk = "ok"
       THEN /\ runs' = SaveTraces(runs, run_dir, result')
            /\ pc' = "returned"
       ELSE /\ runs' = runs
            /\ pc' = "raised"
  /\ UNCHANGED <<tool_vars, side_vars>>
  /\ UNCHANGED <<step_outputs, now, ncalls, plan, dry_run, i, run_dir, resolved, invoked>>

\* A second passes between two calls (the clock is read by _save_plan only).
Tick ==
  /\ pc \in Idle
  /\ now < MaxClock
  /\ now' = now + 1
  /\ UNCHANGED <<tool_vars, side_vars>>
  /\ UNCHANGED <<step_outputs, runs, ncalls, pc, plan, dry_run, i, result,
                 run_dir, resolved, invoked>>

Next ==
  \/ ExecutePlan
  \/ NextStep
  \/ Dispatch
  \/ ToolExecute
  \/ LoopExit
  \/ Finish
  \/ Tick

Spec == Init /\ [][Next]_vars

\* ------------------------------------------------- plans on the workspace
\* Steps for the registered FileTool: two writes inside the workspace (one
\* makes a directory), and a write outside it, which the tool refuses.
WorkspaceSteps ==
  { [tool |-> "file",
     inputs |-> [action |-> Str(<<"write_text">>),
                 path |-> Str(<<"out", "/", "summary.md">>), content |-> Str(<<"a">>)]],
    [tool |-> "file",
     inputs |-> [action |-> Str(<<"write_text">>),
                 path |-> Str(<<"notes.txt">>), content |-> Str(<<"b">>)]],
    [tool |-> "file",
     inputs |-> [action |-> Str(<<"write_text">>),
                 path |-> Str(<<"/", "etc", "/", "passwd">>), content |-> Str(<<"a">>)]] }

WorkspacePlans ==
  UNION { { PlanOf(f) : f \in [1..len -> WorkspaceSteps] } : len \in 0..(MaxSteps + 1) }

ExecuteWorkspacePlan == ExecutePlanOf(WorkspacePlans)

WorkspaceNext ==
  \/ ExecuteWorkspacePlan
  \/ NextStep
  \/ Dispatch
  \/ FileToolExecute
  \/ LoopExit
  \/ Finish
  \/ Tick

SpecWorkspace == Init /\ [][WorkspaceNext]_vars

\* ------------------------------------------------------ plan file in use
\* test_executor.py:176-198 and cli.py:173-174: _save_plan on its own writes
\* plan.json into the run directory of the current second.
SavePlanFile ==
  /\ pc \in Idle
  /\ \E p \in PlansOfAnyRisk :
       /\ plan' = p
       /\ runs' = SavePlan(runs, now, p)
  /\ run_dir' = now
  /\ pc' = "saved"
  /\ UNCHANGED <<step_outputs, now, ncalls, dry_run, i, result, resolved, invoked>>
  /\ UNCHANGED <<tool_vars, side_vars>>

\* load_plan of the file just saved; the plan it returns replaces `plan`.
LoadPlanFile ==
  /\ pc = "saved"
  /\ LET r == load_plan(runs, run_dir)
     IN /\ pc' = IF r.raised THEN "raised" ELSE "returned"
        /\ plan' = IF r.raised THEN NoPlan ELSE r.v
  /\ UNCHANGED <<step_outputs, runs, now, ncalls, dry_run, i, result, run_dir,
                 resolved, invoked>>
  /\ UNCHANGED <<tool_vars, side_vars>>

PlanFileNext == SavePlanFile \/ LoadPlanFile \/ Tick

SpecPlanFile == Init /\ [][PlanFileNext]_vars

\* ------------------------------------------------------ FileTool in use
\* One FileTool.execute call. A file grows only up to MaxContent tokens.
FileExecute ==
  /\ \E inputs \in FileInputs :
       \E r \in {FileTool_execute(fs, inputs)} :
          /\ \A q \in DOMAIN r.fs : Len(r.fs[q].data) <= MaxContent
          /\ fs' = r.fs
          /\ file_in' = inputs
          /\ file_out' = r.out
  /\ UNCHANGED <<exec_vars, shell_vars, side_vars>>

FileNext == FileExecute

SpecFile == Init /\ [][FileNext]_vars

\* ----------------------------------------------------- ShellTool in use
\* One ShellTool.execute call.
ShellExecute ==
  /\ \E cmd \in Commands, timeout \in Timeouts, proc \in ProcessOutcomes :
       \E r \in {ShellTool_execute(whitelist, blacklist,
                                    InputsOf([cmd |-> cmd, timeout |-> timeout]), proc)} :
          /\ shell_in' = InputsOf([cmd |-> cmd, timeout |-> timeout])
          /\ shell_out' = r.out
          /\ shell_ran' = r.ran
          /\ shell_proc' = IF r.ran = None THEN None ELSE proc
  /\ UNCHANGED <<exec_vars, file_vars, whitelist, blacklist, side_vars>>

ShellNext == ShellExecute

InitShell == ExecInit /\ FileInit /\ ShellInit /\ SideInit

SpecShell == InitShell /\ [][ShellNext]_vars

\* --------------------------------------------------------------- CLI in use
\* `openmanus run <plan_file> [--yes]`
CliRun ==
  /\ \E yes \in BOOLEAN, loaded \in RiskLevels \cup {"load_error"},
        answer \in Answers, outcome \in ExecOutcomes :
       \E d \in {run(yes, loaded, answer, outcome)} :
          /\ cli_cmd' = "run"
          /\ cli_args' = [yes |-> yes, dry_run |-> FALSE, risk |-> loaded,
                          answer |-> IF d.asked THEN answer ELSE Line(<<>>),
                          outcome |-> IF d.executed \/ d.saved THEN outcome ELSE "none"]
          /\ cli_done' = d
  /\ UNCHANGED <<exec_vars, tool_vars, fin_vars, reg_vars, res_vars>>
  /\ UNCHANGED <<planner_vars, worker_vars>>

\* `openmanus execute <goal> [--yes] [--dry-run]`
CliExecute ==
  /\ \E yes \in BOOLEAN, dry \in BOOLEAN,
        planned \in RiskLevels \cup {"init_error", "planning_error"},
        answer \in Answers, outcome \in ExecOutcomes :
       \E d \in {_main_command(yes, dry, planned, answer, outcome)} :
          /\ cli_cmd' = "execute"
          /\ cli_args' = [yes |-> yes, dry_run |-> dry, risk |-> planned,
                          answer |-> IF d.asked THEN answer ELSE Line(<<>>),
                          outcome |-> IF d.executed \/ d.saved THEN outcome ELSE "none"]
          /\ cli_done' = d
  /\ UNCHANGED <<exec_vars, tool_vars, fin_vars, reg_vars, res_vars>>
  /\ UNCHANGED <<planner_vars, worker_vars>>

CliNext == CliRun \/ CliExecute

SpecCli == Init /\ [][CliNext]_vars

\* ---------------------------------------------------------- finalize in use
\* The results finalize may be called on: up to MaxTraces traces of any
\* status, any total_steps, counters and overall status fresh or left over.
TracesOfLen(len) ==
  { [n \in 1..len |-> [TraceEntry(StepId(n), "file", PlainInputs) EXCEPT !.status = f[n]]] :
      f \in [1..len -> {PENDING, RUNNING, SUCCESS, FAILURE, SKIPPED}] }

FinalizeInputs ==
  { [ExecutionResult(NoPlan) EXCEPT
       !.traces = traces, !.total_steps = total,
       !.successful_steps = prior.count, !.failed_steps = prior.count,
       !.skipped_steps = prior.count, !.overall_status = prior.status] :
      traces \in UNION { TracesOfLen(len) : len \in 0..MaxTraces },
      total \in 0..(MaxTraces + 1),
      prior \in { [count |-> 0, status |-> PENDING], [count |-> 5, status |-> SUCCESS],
                  [count |-> 5, status |-> FAILURE] } }

FinDraw ==
  /\ fin_arg \in FinalizeInputs
  /\ fin_ret = None

\* result.finalize()
Finalize ==
  /\ fin_ret = None
  /\ fin_ret' = finalize(fin_arg)
  /\ UNCHANGED <<exec_vars, tool_vars, cli_vars, fin_arg, reg_vars, res_vars>>
  /\ UNCHANGED <<planner_vars, worker_vars>>

InitFinalize ==
  /\ ExecInit /\ FileInit /\ ShellDefault /\ CliInit /\ FinDraw /\ RegInit /\ ResIdle
  /\ PlannerInit /\ WorkerInit

SpecFinalize == InitFinalize /\ [][Finalize]_vars

\* ------------------------------------------------------ ToolRegistry in use
Register ==
  /\ \E tool \in ToolPool :
       /\ registry' = register(registry, tool).tools
       /\ reg_op' = [op |-> "register", arg |-> tool]
       /\ reg_ret' = register(registry, tool).ret
  /\ UNCHANGED <<exec_vars, tool_vars, cli_vars, fin_vars, res_vars>>
  /\ UNCHANGED <<planner_vars, worker_vars>>

Get ==
  /\ \E name \in ToolNames :
       /\ reg_op' = [op |-> "get", arg |-> name]
       /\ reg_ret' = Returned(get(registry, name))
  /\ UNCHANGED <<exec_vars, tool_vars, cli_vars, fin_vars, res_vars, registry>>
  /\ UNCHANGED <<planner_vars, worker_vars>>

ListTools ==
  /\ reg_op' = [op |-> "list_tools", arg |-> None]
  /\ reg_ret' = Returned(list_tools(registry))
  /\ UNCHANGED <<exec_vars, tool_vars, cli_vars, fin_vars, res_vars, registry>>
  /\ UNCHANGED <<planner_vars, worker_vars>>

Has ==
  /\ \E name \in ToolNames :
       /\ reg_op' = [op |-> "has", arg |-> name]
       /\ reg_ret' = Returned(has(registry, name))
  /\ UNCHANGED <<exec_vars, tool_vars, cli_vars, fin_vars, res_vars, registry>>
  /\ UNCHANGED <<planner_vars, worker_vars>>

RegistryNext == Register \/ Get \/ ListTools \/ Has

SpecRegistry == Init /\ [][RegistryNext]_vars

\* --------------------------------------------------- _resolve_inputs in use
\* The values an inputs mapping may hold: scalars, nested mappings, lists of
\* scalars, lists that contain a mapping, and reference strings.
ValuePool ==
  { Str(<<"notes.txt">>), Str(<<"ref">>), Num(5), None, Bool(TRUE),
    Dict([name |-> Str(<<"x">>)]),
    Dict([inner |-> List(<<Dict([name |-> Str(<<"x">>)])>>)]),
    Dict([inner |-> Ref(1)]),
    List(<<>>), List(<<Str(<<"a">>), Num(1)>>),
    List(<<Dict([name |-> Str(<<"x">>)])>>),
    List(<<Ref(1)>>),
    Ref(1), RefOutput(1) }

\* The outputs recorded in _step_outputs when the resolver is called.
OutputsPool ==
  { <<>>,
    StepId(1) :> Dict([content |-> Str(<<"Hello">>)]),
    StepId(1) :> Str(<<"text">>),
    (StepId(1) :> None) @@ (StepId(2) :> Dict([path |-> Str(<<"/ws/out.md">>)])) }

\* self._resolve_inputs(inputs)
ResolveInputs ==
  /\ res_ret = None
  /\ res_ret' = _resolve_inputs(res_arg, res_outs)
  /\ UNCHANGED <<exec_vars, tool_vars, cli_vars, fin_vars, reg_vars, res_arg, res_outs>>
  /\ UNCHANGED <<planner_vars, worker_vars>>

InitResolve ==
  /\ ExecInit /\ FileInit /\ ShellDefault /\ CliInit /\ FinIdle /\ RegInit
  /\ PlannerInit /\ WorkerInit
  /\ res_arg \in { <<>> } \cup { [a |-> v] : v \in ValuePool }
                  \cup { [a |-> v, b |-> w] : v \in ValuePool, w \in ValuePool }
  /\ res_outs \in OutputsPool
  /\ res_ret = None

SpecResolve == InitResolve /\ [][ResolveInputs]_vars

\* ------------------------------------------------------- LLMPlanner in use
\* What a call gives: a value, or an exception of a class with a message.
Gives(x) == [raised |-> FALSE, class |-> "", v |-> x]
Throws(class, msg) == [raised |-> TRUE, class |-> class, v |-> msg]

\* What litellm.completion gives generate_plan: an exception, or a message
\* whose text holds no JSON document at all, or one that holds the document
\* `json`; `strict` tells whether json.loads accepts the text too, or only
\* the lenient json5.loads does.
ApiError == [kind |-> "api_error", strict |-> FALSE, json |-> None]
LLMText(strict, json) == [kind |-> "text", strict |-> strict, json |-> json]

\* The plans an LLM may answer with: 0..MaxSteps steps, any risk level.
ReplyPlans ==
  { [PlanOf([n \in 1..len |-> [tool |-> "file", inputs |-> PlainInputs]])
       EXCEPT !.risk_level = r] : len \in 0..MaxSteps, r \in RiskLevels }

\* The documents an LLM may answer with: an array, an object that is no
\* plan, and the plans above.
ReplyDocuments ==
  { JsonArray(<<>>), JsonObject([goal |-> to_json(Str(<<"goal">>))]) }
    \cup { PlanJson(p) : p \in ReplyPlans }

LLMReplies ==
  { ApiError, LLMText(FALSE, None) }
    \cup { LLMText(b, n) : b \in BOOLEAN, n \in ReplyDocuments }

\* llm_planner.py:168-171 and 329-330: `plan_data["workspace_root"] = ...`
\* raises TypeError on a document that is not an object, and Plan(**plan_data)
\* raises ValidationError on an object that is not a plan. A plan without
\* steps is a Plan (test_planner.py:152-158).
PlanOfData(json) ==
  IF json.t # "object" THEN Throws("TypeError", <<"item assignment">>)
  ELSE IF ~PlanValid(json) THEN Throws("ValidationError", <<"validation error for Plan">>)
  ELSE Gives(PlanFromJson(json))

\* llm_planner.py:286-297 _validate_plan: a plan is well-formed when it has
\* steps.
_validate_plan(p) == p.steps # <<>>

\* llm_planner.py:133-173: the first completion call and what is made of its
\* answer, before the except clauses of generate_plan.
FirstAttempt(reply) ==
  IF reply.kind = "api_error" THEN Throws("APIError", <<"connection error">>)
  ELSE IF reply.json = None
  THEN Throws("PlanningError", <<"Invalid JSON response from LLM">>)
  ELSE LET d == PlanOfData(reply.json)
       IN IF d.raised /\ d.class = "ValidationError"
          THEN Throws("PlanningError", <<"Plan validation failed">>)
          ELSE d

\* llm_planner.py:181-184: `except PlanningError: raise` and
\* `except Exception as e: raise PlanningError(...)`.
ExceptClauses(r) ==
  IF r.raised /\ r.class # "PlanningError"
  THEN Throws("PlanningError", <<"Failed to generate plan">>)
  ELSE r

\* llm_planner.py:299-333 _retry_plan: the second completion call; its
\* answer is parsed by json.loads alone and made a Plan, and every exception
\* becomes a PlanningError. The plan is returned as it is.
_retry_plan(reply) ==
  LET r == IF reply.kind = "api_error" THEN Throws("APIError", <<"connection error">>)
           ELSE IF reply.json = None \/ ~reply.strict
           THEN Throws("JSONDecodeError", <<"Expecting value">>)
           ELSE PlanOfData(reply.json)
  IN IF r.raised THEN Throws("PlanningError", <<"Retry also failed">>) ELSE r

\* llm_planner.py:113-131: generate_plan is called.
GeneratePlan ==
  /\ planner_pc \in Idle
  /\ planner_pc' = "completion"
  /\ llm_replies' = <<>>
  /\ planner_ret' = None
  /\ UNCHANGED <<exec_vars, tool_vars, cli_vars, fin_vars, reg_vars, res_vars, worker_vars>>

\* llm_planner.py:133-184: the first completion call is answered; the plan
\* made of the answer is returned if _validate_plan accepts it, and
\* _retry_plan is called if not.
FirstCompletion ==
  /\ planner_pc = "completion"
  /\ \E reply \in LLMReplies :
       /\ llm_replies' = <<reply>>
       /\ LET r == ExceptClauses(FirstAttempt(reply))
          IN IF r.raised
             THEN planner_pc' = "raised" /\ planner_ret' = r
             ELSE IF ~_validate_plan(r.v)
             THEN planner_pc' = "retry" /\ planner_ret' = None
             ELSE planner_pc' = "returned" /\ planner_ret' = r
  /\ UNCHANGED <<exec_vars, tool_vars, cli_vars, fin_vars, reg_vars, res_vars, worker_vars>>

\* llm_planner.py:177 and 314-333: the second completion call is answered
\* and generate_plan returns what _retry_plan returns, or raises what it
\* raises.
RetryCompletion ==
  /\ planner_pc = "retry"
  /\ \E reply \in LLMReplies :
       /\ llm_replies' = Append(llm_replies, reply)
       /\ LET r == ExceptClauses(_retry_plan(reply))
          IN /\ planner_ret' = r
             /\ planner_pc' = IF r.raised THEN "raised" ELSE "returned"
  /\ UNCHANGED <<exec_vars, tool_vars, cli_vars, fin_vars, reg_vars, res_vars, worker_vars>>

PlannerNext == GeneratePlan \/ FirstCompletion \/ RetryCompletion

SpecPlanner == Init /\ [][PlannerNext]_vars

\* --------------------------------------------------- ExecutorWorker in use
\* A signal emitted by the worker, with its argument.
Signal(name, arg) == [name |-> name, arg |-> arg]

\* executor_worker.py:62-65: one step_complete per trace whose status is
\* success or failure, in the order of the traces.
StepCompleteSignals(traces) ==
  LET done == SelectSeq(traces, LAMBDA t : t.status \in {SUCCESS, FAILURE})
  IN [n \in DOMAIN done |-> Signal("step_complete", done[n])]

\* executor_worker.py:24-35 and 48-53: a worker is made for a plan on an
\* executor that is not inside a call, and run begins: it emits `started` and
\* one `progress` per step of the plan.
WorkerRun ==
  /\ worker_pc \in {"idle", "done"}
  /\ pc \in Idle
  /\ ncalls < MaxCalls
  /\ \E p \in Plans, d \in BOOLEAN :
       /\ plan' = p
       /\ dry_run' = d
       /\ signals' = <<Signal("started", None)>>
                        \o [n \in DOMAIN p.steps |-> Signal("progress", Num(n))]
  /\ worker_pc' = "running"
  /\ worker_base' = ncalls
  /\ UNCHANGED <<tool_vars, cli_vars, fin_vars, reg_vars, res_vars, planner_vars>>
  /\ UNCHANGED <<step_outputs, runs, now, ncalls, pc, i, result, run_dir, resolved, invoked>>

\* executor_worker.py:60: run calls execute_plan on its plan.
WorkerExecute ==
  /\ worker_pc = "running"
  /\ ncalls = worker_base
  /\ ExecutePlanOf({plan})
  /\ dry_run' = dry_run

\* A run that emits `finished` after `error` when execute_plan has raised.
WorkerRaised_AlsoFinished ==
  /\ worker_pc = "running"
  /\ ncalls = worker_base + 1
  /\ pc = "raised"
  /\ signals' = signals \o <<Signal("error", Str(<<"error">>)), Signal("finished", result)>>
  /\ worker_pc' = "done"
  /\ UNCHANGED <<exec_vars, tool_vars, cli_vars, fin_vars, reg_vars, res_vars, planner_vars>>
  /\ UNCHANGED worker_base

\* executor_worker.py:69-70: execute_plan has raised; run emits `error`.
WorkerRaised ==
  /\ worker_pc = "running"
  /\ ncalls = worker_base + 1
  /\ pc = "raised"
  /\ signals' = Append(signals, Signal("error", Str(<<"error">>)))
  /\ worker_pc' = "done"
  /\ UNCHANGED <<exec_vars, tool_vars, cli_vars, fin_vars, reg_vars, res_vars, planner_vars>>
  /\ UNCHANGED worker_base

\* executor_worker.py:62-67: execute_plan has returned; run emits the
\* step_complete signals and then `finished` with the result.
WorkerReturned ==
  /\ worker_pc = "running"
  /\ ncalls = worker_base + 1
  /\ pc = "returned"
  /\ signals' = signals \o StepCompleteSignals(result.traces)
                         \o <<Signal("finished", result)>>
  /\ worker_pc' = "done"
  /\ UNCHANGED <<exec_vars, tool_vars, cli_vars, fin_vars, reg_vars, res_vars, planner_vars>>
  /\ UNCHANGED worker_base

WorkerNext ==
  \/ WorkerRun
  \/ WorkerExecute
  \/ NextStep
  \/ Dispatch
  \/ ToolExecute
  \/ LoopExit
  \/ Finish
  \/ WorkerReturned
  \/ WorkerRaised

SpecWorker == Init /\ [][WorkerNext]_vars

\* ================================================================== claims
\* What happened to the steps of the current call, read from the plan and
\* from the log of tool invocations rather than from the traces.
ToolSucceeded(output) == ~output.raised /\ output.success

\* Steps 1..k were dispatched in order and their tools returned success.
PrefixSucceeds(k) ==
  /\ Len(invoked) >= k
  /\ \A j \in 1..k : invoked[j].step = j /\ ToolSucceeded(invoked[j].output)

\* Step n fails: its tool is missing, resolving its inputs raises, or its
\* tool returned success=false or raised.
StepFails(n) ==
  \/ plan.steps[n].tool \notin RegisteredTools
  \/ \E key \in DOMAIN plan.steps[n].inputs :
       /\ plan.steps[n].inputs[key].t = "list"
       /\ \E m \in 1..Len(plan.steps[n].inputs[key].v) :
            plan.steps[n].inputs[key].v[m].t = "dict"
  \/ /\ Len(invoked) >= n
     /\ invoked[n].step = n
     /\ ~ToolSucceeded(invoked[n].output)

\* Step k+1 is the first step to fail, in a call that was not a dry run and
\* has returned.
FirstFailureAfter(k) ==
  /\ pc = "returned"
  /\ ~dry_run
  /\ k + 1 <= Len(plan.steps)
  /\ PrefixSucceeds(k)
  /\ StepFails(k + 1)

\* C1: when steps 1..k succeed and step k+1 fails, the returned result has
\* successful_steps = k, failed_steps = 1 and overall_status FAILURE.
C1_FailureCounts ==
  \A k \in 0..MaxSteps :
    FirstFailureAfter(k) =>
      /\ result.successful_steps = k
      /\ result.failed_steps = 1
      /\ result.overall_status = FAILURE

C1_Witness ==
  /\ FirstFailureAfter(1)
  /\ result.successful_steps = 1
  /\ result.overall_status = FAILURE

\* C2: when step k+1 is the first to fail, no tool is invoked for a later
\* step and the trace list has exactly k+1 entries, the n-th one carrying
\* the id of the plan's n-th step.
C2_StopsAtFirstFailure ==
  \A k \in 0..MaxSteps :
    FirstFailureAfter(k) =>
      /\ \A m \in 1..Len(invoked) : invoked[m].step <= k + 1
      /\ Len(result.traces) = k + 1
      /\ \A n \in 1..(k + 1) : result.traces[n].step_id = plan.steps[n].id

C2_Witness ==
  /\ FirstFailureAfter(0)
  /\ Len(plan.steps) = 2
  /\ Len(result.traces) = 1
  /\ Len(invoked) = 1

\* C3: when steps 1..k succeed and step k+1 fails, the returned result has
\* skipped_steps = N-k-1.
C3_SkippedCount ==
  \A k \in 0..MaxSteps :
    FirstFailureAfter(k) => result.skipped_steps = Len(plan.steps) - k - 1

\* C4: execute_plan never raises because of a step (it raises only before
\* the first trace exists or after the result is finalized), and the step
\* that fails has a FAILURE trace with a non-empty error message in the
\* returned result.
C4_FailureTraceHasMessage ==
  /\ pc = "raised" => (result.traces = <<>> \/ result.end_time)
  /\ \A k \in 0..MaxSteps :
       FirstFailureAfter(k) =>
         /\ Len(result.traces) >= k + 1
         /\ result.traces[k + 1].status = FAILURE
         /\ result.traces[k + 1].error.t = "str"
         /\ Len(result.traces[k + 1].error.v) > 0

\* The step id a reference string names, read off the text.
IsRefTo(value, id) == value = Str(RefPrefix \o id)
IsRefOutputTo(value, id) == value = Str(RefPrefix \o id \o <<".output">>)

\* The ids of the steps that precede step n in the current plan.
EarlierIds(n) == { plan.steps[j].id : j \in 1..(n - 1) }

StepIds == { StepId(n) : n \in 1..MaxSteps }

\* C5: a `ref:step:<id>` input is never replaced by an output recorded
\* during a different execute_plan call: a reference to an id that no
\* earlier step of the current call has reaches the tool as it was written.
C5_OutputsScopedPerCall ==
  \A m \in 1..Len(invoked) :
    LET raw == plan.steps[invoked[m].step].inputs
    IN \A key \in DOMAIN raw, id \in StepIds :
         (IsRefTo(raw[key], id) /\ id \notin EarlierIds(invoked[m].step))
           => invoked[m].inputs[key] = raw[key]

\* C6: for a step id X that has executed in the current call, the input
\* `ref:step:X.output` is replaced by the same value as `ref:step:X`.
C6_OutputSuffixResolved ==
  pc = "exec" =>
    \A key \in DOMAIN plan.steps[i].inputs, id \in EarlierIds(i) :
      IsRefOutputTo(plan.steps[i].inputs[key], id)
        => resolved[key] = ResolveString(Str(RefPrefix \o id), step_outputs)

\* C7: a `ref:step:<id>` input whose step has a recorded output reaches the
\* tool as the output's `content` if the output is a mapping with that key,
\* and as the whole recorded output otherwise.
C7_ContentOrWholeOutput ==
  pc = "exec" =>
    \A key \in DOMAIN plan.steps[i].inputs, id \in DOMAIN step_outputs :
      IsRefTo(plan.steps[i].inputs[key], id)
        => resolved[key] =
             IF step_outputs[id].t = "dict" /\ "content" \in DOMAIN step_outputs[id].v
             THEN step_outputs[id].v["content"]
             ELSE step_outputs[id]

C7_Witness ==
  /\ pc = "exec"
  /\ i = 2
  /\ PrefixSucceeds(1)
  /\ plan.steps[2].inputs = RefInputs
  /\ step_outputs[StepId(1)].t = "dict"
  /\ "content" \in DOMAIN step_outputs[StepId(1)].v
  /\ resolved["content"] = Str(<<"Hello">>)

\* C8: a dry run invokes no tool and returns one SUCCESS trace per plan step
\* with outputs {dry_run: true} and overall_status SUCCESS, with plan.json
\* written to the run directory.
C8_DryRun ==
  /\ dry_run => invoked = <<>>
  /\ (pc = "returned" /\ dry_run) =>
       /\ Len(result.traces) = Len(plan.steps)
       /\ \A n \in 1..Len(plan.steps) :
            /\ result.traces[n].step_id = plan.steps[n].id
            /\ result.traces[n].status = SUCCESS
            /\ result.traces[n].outputs = Dict([dry_run |-> Bool(TRUE)])
       /\ result.overall_status = SUCCESS
       /\ run_dir \in DOMAIN runs
       /\ runs[run_dir].plan = File(PlanJson(plan))

C8_Witness ==
  /\ pc = "returned"
  /\ dry_run
  /\ Len(plan.steps) = 2
  /\ Len(result.traces) = 2
  /\ plan.steps[1].tool = "browser"

\* The last FileTool.execute call named one of the three actions and a path
\* string that resolved, in the filesystem `files` it ran on, outside the
\* workspace root.
FileActions == {Str(<<"read_text">>), Str(<<"write_text">>), Str(<<"list_dir">>)}

AskedOutside(files, inputs) ==
  /\ "action" \in DOMAIN inputs
  /\ inputs["action"] \in FileActions
  /\ "path" \in DOMAIN inputs
  /\ inputs["path"].t = "str"
  /\ ~IsPrefix(WorkspaceRoot, JoinResolve(files, inputs["path"].v))

IsOutsideError(error) ==
  /\ error.t = "str"
  /\ \E n \in 1..Len(error.v) : error.v[n] = "' is outside workspace root '"

\* A write_text request that carries content and a valid (or no) mode.
WellFormed(inputs) ==
  inputs["action"] = Str(<<"write_text">>) =>
    /\ "content" \in DOMAIN inputs
    /\ ("mode" \in DOMAIN inputs
          => inputs["mode"] \in {Str(<<"overwrite">>), Str(<<"append">>)})

\* C9 as stated: for each action and every path that resolves outside the
\* workspace root, execute returns success=false with an 'outside workspace'
\* error and leaves the filesystem unchanged.
C9_OutsideRejected ==
  [][AskedOutside(fs, file_in') =>
       /\ ~file_out'.raised
       /\ ~file_out'.success
       /\ IsOutsideError(file_out'.error)
       /\ fs' = fs]_vars

\* C9, amended: a request for a path outside the workspace root fails,
\* returns no data and leaves the filesystem unchanged; the error is the
\* 'outside workspace' error whenever the request is otherwise well formed
\* (a write_text without content or with an invalid mode is refused with
\* that validation error before the path is looked at).
C9_OutsideRejectedAmended ==
  [][AskedOutside(fs, file_in') =>
       /\ ~file_out'.raised
       /\ ~file_out'.success
       /\ file_out'.data = None
       /\ fs' = fs
       /\ WellFormed(file_in') => IsOutsideError(file_out'.error)]_vars

C9_Witness ==
  /\ file_in = [action |-> Str(<<"write_text">>),
                path |-> Str(<<"..", "/", "tmp", "/", "new", "/", "x.txt">>),
                content |-> Str(<<"a">>)]
  /\ ~file_out.success
  /\ IsOutsideError(file_out.error)
  /\ <<"tmp">> \notin DOMAIN fs
  /\ <<"ws", "out", "summary.md">> \in DOMAIN fs

\* The base token of the last command given to ShellTool.execute.
HasBaseToken ==
  /\ "cmd" \in DOMAIN shell_in
  /\ shell_in["cmd"].t = "str"
  /\ ~shlex_split(shell_in["cmd"].v).raised
  /\ shlex_split(shell_in["cmd"].v).v # <<>>

BaseToken == shlex_split(shell_in["cmd"].v).v[1]

C11_OnlyVettedCommandsRun ==
  /\ shell_ran # None =>
       /\ HasBaseToken
       /\ shell_ran = shell_in["cmd"]
       /\ BaseToken \in whitelist
       /\ BaseToken \notin blacklist
       /\ \A n \in 1..Len(dangerous_patterns) :
            ~Contains(Lower(shell_in["cmd"].v), dangerous_patterns[n])
  /\ (/\ "cmd" \in DOMAIN shell_in
      /\ shell_in["cmd"].t = "str"
      /\ \E n \in 1..Len(dangerous_patterns) :
           Contains(Lower(shell_in["cmd"].v), dangerous_patterns[n]))
       => (~shell_out.raised /\ ~shell_out.success /\ shell_ran = None)

C11_Witness ==
  /\ HasBaseToken
  /\ shell_in["cmd"] = Str(<<"c", "a", "t", " ", "M", "K", "F", "S">>)
  /\ BaseToken \in whitelist
  /\ BaseToken \notin blacklist
  /\ ~shell_out.success
  /\ shell_out.error = Str(<<"Command contains dangerous pattern: ">> \o <<"m", "k", "f", "s">>)
  /\ shell_ran = None


\* The user was asked and answered "y" or "yes".
Confirmed ==
  /\ cli_done.asked
  /\ ~_confirm_execution(cli_args.answer).raised
  /\ _confirm_execution(cli_args.answer).v

\* C12: in `run` and in `execute`, a plan of MEDIUM or HIGH risk reaches
\* execute_plan only after the user has confirmed, --yes or not.
C12_YesSkipsOnlyLowRisk ==
  (/\ cli_cmd \in {"run", "execute"}
   /\ cli_done.executed
   /\ cli_args.risk \in {MEDIUM, HIGH})
    => Confirmed

\* C13: every execute_plan call writes into a run directory of its own: the
\* directory a call saves its plan to holds no plan.json of an earlier call.
C13_RunDirOfItsOwn ==
  [][(ncalls' = ncalls + 1 /\ pc' = "loop" /\ run_dir' \in DOMAIN runs)
       => runs[run_dir'].plan = NoFile]_vars

\* The plan of the current call is in plan.json of the call's run directory.
PlanPersisted ==
  /\ run_dir \in DOMAIN runs
  /\ runs[run_dir].plan = File(PlanJson(plan))

\* C14: plan.json is written to the run directory before the first tool
\* invocation of a call; no tool is invoked for a plan that is not persisted.
C14_PlanPersistedBeforeTools ==
  (pc \in {"dispatch", "exec"} \/ invoked # <<>>) => PlanPersisted

C14_Witness ==
  /\ Len(invoked) = 2
  /\ ncalls = 2
  /\ PlanPersisted
  /\ runs[run_dir].trace = NoFile

\* C15: in a run that is not a dry run, a trace becomes SUCCESS or FAILURE
\* only from RUNNING, also when the tool lookup or the input resolution fails.
C15_TerminalOnlyFromRunning ==
  [][~dry_run' =>
       \A n \in 1..Len(result'.traces) :
         (/\ result'.traces[n].status \in {SUCCESS, FAILURE}
          /\ (n > Len(result.traces)
                \/ result.traces[n].status # result'.traces[n].status))
           => (/\ n <= Len(result.traces)
               /\ result.traces[n].status = RUNNING)]_vars

\* C16: for every step dispatched to a tool, the `inputs` of its trace are
\* the resolved inputs that tool.execute was called with.
C16_TraceInputsResolved ==
  \A m \in 1..Len(invoked) :
    result.traces[invoked[m].step].inputs = invoked[m].inputs

\* The inputs of the last ShellTool.execute call are malformed: no `cmd`, a
\* `cmd` that is no str, unbalanced quoting, or no token at all.
MalformedShellInputs ==
  /\ shell_in # <<>>
  /\ ~HasBaseToken

\* C17: FileTool.execute and ShellTool.execute never raise; for malformed
\* inputs they return a ToolOutput with success=false and an error string.
C17_ToolsNeverRaise ==
  /\ ~file_out.raised
  /\ ~shell_out.raised
  /\ MalformedShellInputs =>
       (~shell_out.success /\ shell_out.error.t = "str" /\ shell_ran = None)

\* Number of traces of the finalized result that carry a status.
Tally(status) ==
  Cardinality({ n \in 1..Len(fin_arg.traces) : fin_arg.traces[n].status = status })

\* C18: finalize sets the three counters to the numbers of SUCCESS, FAILURE
\* and SKIPPED traces, whatever they held before, and overall_status to
\* FAILURE if a trace failed, else SUCCESS iff the SUCCESS traces number
\* total_steps, else PENDING.
C18_FinalizeRecounts ==
  fin_ret # None =>
    /\ fin_ret.successful_steps = Tally(SUCCESS)
    /\ fin_ret.failed_steps = Tally(FAILURE)
    /\ fin_ret.skipped_steps = Tally(SKIPPED)
    /\ fin_ret.overall_status =
         (IF Tally(FAILURE) > 0 THEN FAILURE
          ELSE IF Tally(SUCCESS) = fin_arg.total_steps THEN SUCCESS
          ELSE PENDING)
    /\ fin_ret.traces = fin_arg.traces
    /\ fin_ret.total_steps = fin_arg.total_steps

C18_Witness ==
  /\ fin_ret # None
  /\ fin_arg.successful_steps = 5
  /\ fin_arg.overall_status = SUCCESS
  /\ Tally(SUCCESS) = 2
  /\ Tally(SKIPPED) = 1
  /\ fin_arg.total_steps = 3
  /\ fin_ret.successful_steps = 2
  /\ fin_ret.skipped_steps = 1
  /\ fin_ret.overall_status = PENDING

\* C19: registering a tool under a name that is taken raises and leaves the
\* registry as it was, so get(name) keeps returning the first tool
\* registered under the name; get of an unregistered name returns None
\* without raising; has(name) holds exactly for the names list_tools gives.
C19_RegistryContract ==
  [][/\ (reg_op'.op = "register" /\ has(registry, reg_op'.arg.name))
          => (reg_ret'.raised /\ registry' = registry)
     /\ \A name \in ToolNames :
          has(registry, name) => get(registry', name) = get(registry, name)
     /\ (reg_op'.op = "get" /\ ~has(registry, reg_op'.arg))
          => reg_ret' = Returned(None)
     /\ \A name \in ToolNames :
          has(registry', name)
            <=> (\E n \in 1..Len(list_tools(registry')) :
                   list_tools(registry')[n] = name)]_vars

C19_Witness ==
  /\ reg_op.op = "register"
  /\ reg_ret.raised
  /\ get(registry, reg_op.arg.name) # None
  /\ get(registry, reg_op.arg.name).id # reg_op.arg.id
  /\ Len(registry) = 2

\* No string in the value, at any depth, starts with "ref:step:".
RECURSIVE RefFree(_)
RefFree(value) ==
  CASE value.t = "str" -> ~StartsWith(value.v, RefPrefix)
    [] value.t = "dict" -> \A key \in DOMAIN value.v : RefFree(value.v[key])
    [] value.t = "list" -> \A n \in 1..Len(value.v) : RefFree(value.v[n])
    [] OTHER -> TRUE

\* C20: for an inputs mapping of any shape that holds no "ref:step:" string,
\* _resolve_inputs does not raise and returns a mapping equal to the input,
\* whatever outputs are recorded.
C20_RefFreeIsIdentity ==
  (res_ret # None /\ \A key \in DOMAIN res_arg : RefFree(res_arg[key]))
    => (~res_ret.raised /\ res_ret.v = res_arg)

C22_TraceRoundTrip ==
  pc = "returned"
    => LET r == load_trace(runs, run_dir)
       IN /\ ~r.raised
          /\ r.v.plan_goal = result.plan_goal
          /\ r.v.total_steps = result.total_steps
          /\ r.v.successful_steps = result.successful_steps
          /\ r.v.failed_steps = result.failed_steps
          /\ r.v.overall_status = result.overall_status

\* A call has returned a result with a successful trace whose outputs are
\* a str, and load_trace raises on the run directory of that call.
C22_LoadRaises ==
  /\ pc = "returned"
  /\ \E n \in DOMAIN result.traces :
       /\ result.traces[n].status = SUCCESS
       /\ result.traces[n].outputs.t = "str"
  /\ load_trace(runs, run_dir).raised

\* The lists among the top-level values of the inputs that were resolved.
ListKeys == { key \in DOMAIN res_arg : res_arg[key].t = "list" }

\* C23: a reference string that is an element of a list-valued input is
\* resolved like a top-level reference (the referenced output stands in that
\* list position), and a list element that is a mapping is resolved
\* recursively without error.
C23_ListElementsResolved ==
  res_ret # None
    => /\ (\A key \in DOMAIN res_arg : RefFree(res_arg[key]) \/ key \in ListKeys)
            => ~res_ret.raised
       /\ ~res_ret.raised
            => \A key \in ListKeys : \A n \in 1..Len(res_arg[key].v) :
                 res_arg[key].v[n].t = "str"
                   => res_ret.v[key].v[n] = ResolveString(res_arg[key].v[n], res_outs)

\* A list holding a reference to a step with a recorded output comes back
\* with the reference string still in place.
C23_ListRefKept ==
  /\ res_ret # None /\ ~res_ret.raised
  /\ \E key \in ListKeys :
       /\ res_arg[key] = List(<<Ref(1)>>)
       /\ StepId(1) \in DOMAIN res_outs
       /\ res_ret.v[key] = res_arg[key]
       /\ ResolveString(Ref(1), res_outs) # Ref(1)

\* A list whose only element is a reference-free mapping makes the resolver
\* raise NameError.
C23_ListDictRaises ==
  /\ res_ret # None /\ res_ret.raised
  /\ DOMAIN res_arg = {"a"}
  /\ res_arg["a"] = List(<<Dict([name |-> Str(<<"x">>)])>>)

\* A reference string naming a step for which no output is recorded.
UnrecordedRef(value) ==
  /\ value.t = "str"
  /\ StartsWith(value.v, RefPrefix)
  /\ Len(Split(value.v, ":")) >= 3
  /\ Split(value.v, ":")[3] \notin DOMAIN step_outputs

MissingToolTraces ==
  { n \in DOMAIN result.traces :
      /\ plan.steps[n].tool \notin RegisteredTools
      /\ result.traces[n].status = FAILURE }

C26_OutputRecordedBeforeSuccessTest ==
  [][pc = "exec"
       => LET output == invoked'[Len(invoked')].output
          IN ~output.raised
               => /\ plan.steps[i].id \in DOMAIN step_outputs'
                  /\ step_outputs'[plan.steps[i].id] = output.data
                  /\ \A id \in DOMAIN step_outputs' \ {plan.steps[i].id} :
                       /\ id \in DOMAIN step_outputs
                       /\ step_outputs'[id] = step_outputs[id]]_vars

C26_Witness ==
  /\ pc = "finalize"
  /\ Len(invoked) = 1
  /\ ~invoked[1].output.raised
  /\ ~invoked[1].output.success
  /\ invoked[1].output.data.t = "dict"
  /\ result.traces[1].status = FAILURE
  /\ step_outputs = (plan.steps[1].id :> invoked[1].output.data)

\* The path contributed by step n of the current call: the "path" of the
\* mapping its tool returned with success, if there is one.
StepPath(n) ==
  IF \E e \in DOMAIN invoked :
       /\ invoked[e].step = n
       /\ ~invoked[e].output.raised /\ invoked[e].output.success
       /\ invoked[e].output.data.t = "dict"
       /\ "path" \in DOMAIN invoked[e].output.data.v
  THEN LET e == CHOOSE e \in DOMAIN invoked : invoked[e].step = n
       IN <<invoked[e].output.data.v["path"]>>
  ELSE <<>>

RECURSIVE PathsUpTo(_)
PathsUpTo(n) == IF n = 0 THEN <<>> ELSE PathsUpTo(n - 1) \o StepPath(n)

\* C27: when execute_plan has returned, produced_files is the sequence, in
\* step order, of the "path" values of the steps whose tool succeeded with a
\* mapping holding "path"; failed steps, steps never attempted and steps of
\* a dry run contribute nothing.
C27_ProducedFiles ==
  pc = "returned" => result.produced_files = PathsUpTo(Len(plan.steps))

C27_Witness ==
  /\ pc = "returned"
  /\ Len(plan.steps) = 2
  /\ Len(result.produced_files) = 2
  /\ result.produced_files[1] # result.produced_files[2]
  /\ result.produced_files = PathsUpTo(2)

\* C28: in every call trace.jsonl and result.json are written only after
\* finalize has run; trace.jsonl then holds one line per trace of the
\* returned result, in order, and the statuses and counts in result.json
\* are those of the returned result.
C28_TracesWrittenAfterFinalize ==
  [][/\ (run_dir \in DOMAIN runs /\ run_dir \in DOMAIN runs'
          /\ (runs'[run_dir].trace # runs[run_dir].trace
               \/ runs'[run_dir].result # runs[run_dir].result))
       => pc = "finalize" /\ pc' = "returned" /\ result' = finalize(result)
     /\ (pc = "finalize" /\ pc' = "returned")
       => LET lines == runs'[run_dir].trace.v
              summary == runs'[run_dir].result.v.v
          IN /\ Len(lines) = Len(result'.traces)
             /\ \A n \in DOMAIN lines :
                  /\ lines[n] = TraceJson(result'.traces[n])
                  /\ lines[n].v.status.v = <<result'.traces[n].status>>
                  /\ summary.traces.v[n].v.status.v = <<result'.traces[n].status>>
             /\ summary.overall_status.v = <<result'.overall_status>>
             /\ summary.total_steps.v = <<result'.total_steps>>
             /\ summary.successful_steps.v = <<result'.successful_steps>>
             /\ summary.failed_steps.v = <<result'.failed_steps>>
             /\ summary.skipped_steps.v = <<result'.skipped_steps>>]_vars

C28_Witness ==
  /\ pc = "returned"
  /\ Len(result.traces) = 2
  /\ result.overall_status = FAILURE
  /\ result.successful_steps = 1 /\ result.failed_steps = 1
  /\ Len(runs[run_dir].trace.v) = 2
  /\ runs[run_dir].trace.v[2].v.status.v = <<FAILURE>>
  /\ runs[run_dir].result.v.v.overall_status.v = <<FAILURE>>

\* The file a successful write_text invocation of the current call wrote.
WrittenPath(e) == _resolve_path(fs, invoked[e].inputs["path"]).v

SuccessfulWrites ==
  { e \in DOMAIN invoked :
      /\ invoked[e].output.success
      /\ invoked[e].inputs["action"] = Str(<<"write_text">>) }

\* Every file written by a successful step is in the workspace, below
\* directories, and holds the content of the last successful write to it.
EffectsPresent ==
  \A e \in SuccessfulWrites :
    /\ IsFile(fs, WrittenPath(e))
    /\ \A n \in 1..(Len(WrittenPath(e)) - 1) : IsDir(fs, SubSeq(WrittenPath(e), 1, n))
    /\ (\A later \in SuccessfulWrites : later > e => WrittenPath(later) # WrittenPath(e))
         => fs[WrittenPath(e)].data = invoked[e].inputs["content"].v

\* C29: the executor undoes nothing. Only a tool invocation changes the
\* workspace, and when a call returns after a step failed, every file and
\* directory made by the successful steps before it is still there.
C29_NoRollback ==
  [][/\ pc # "exec" => fs' = fs
     /\ (pc = "finalize" /\ pc' = "returned" /\ result'.failed_steps > 0)
       => EffectsPresent']_vars

C29_Witness ==
  /\ pc = "returned"
  /\ Len(invoked) = 3
  /\ SuccessfulWrites = {1, 2}
  /\ WrittenPath(1) # WrittenPath(2)
  /\ result.traces[3].status = FAILURE
  /\ EffectsPresent
  /\ fs # InitialFiles

\* C30: within one call the tool of a step is invoked at most once, and the
\* tool of a step after the first is invoked only after the tool of the step
\* before it was invoked and that step's trace reached SUCCESS.
C30_OnceAndInOrder ==
  /\ \A a, b \in DOMAIN invoked : invoked[a].step = invoked[b].step => a = b
  /\ \A e \in DOMAIN invoked :
       invoked[e].step > 1
         => /\ e > 1 /\ invoked[e - 1].step = invoked[e].step - 1
            /\ result.traces[invoked[e].step - 1].status = SUCCESS

C30_Witness ==
  /\ pc = "returned"
  /\ Len(invoked) = 2
  /\ invoked[1].step = 1 /\ invoked[2].step = 2
  /\ invoked[2].output.raised
  /\ result.traces[1].status = SUCCESS
  /\ result.traces[2].status = FAILURE

\* The last ShellTool call started a process whose exit the tool saw: the
\* timeout was a number and the process ended by itself.
Exited ==
  /\ shell_ran # None
  /\ shell_proc.kind = "exit"
  /\ ("timeout" \in DOMAIN shell_in => shell_in["timeout"].t = "int")

TimedOut ==
  /\ shell_ran # None
  /\ shell_proc.kind = "timeout"
  /\ ("timeout" \in DOMAIN shell_in => shell_in["timeout"].t = "int")

MalformedFileInputs(inputs) ==
  \/ "action" \notin DOMAIN inputs
  \/ inputs["action"] \notin FileActions
  \/ "path" \notin DOMAIN inputs
  \/ /\ inputs["action"] = Str(<<"write_text">>)
     /\ \/ "content" \notin DOMAIN inputs
        \/ /\ "mode" \in DOMAIN inputs
           /\ inputs["mode"] \notin {Str(<<"overwrite">>), Str(<<"append">>)}

\* C32: FileTool.execute called with an unknown action, without a path,
\* with a write_text that lacks content or with a write_text whose mode is
\* neither overwrite nor append returns success=false and leaves the
\* filesystem as it was.
C32_MalformedLeavesFilesAlone ==
  [][MalformedFileInputs(file_in') =>
       /\ ~file_out'.raised
       /\ ~file_out'.success
       /\ file_out'.error.t = "str"
       /\ fs' = fs]_vars

C32_Witness ==
  /\ file_in = [action |-> Str(<<"write_text">>),
                path |-> Str(<<"out", "/", "summary.md">>),
                content |-> Str(<<"a">>), mode |-> Str(<<"bogus">>)]
  /\ ~file_out.success
  /\ StartsWith(file_out.error.v, <<"Invalid mode: ">>)
  /\ <<"ws", "out">> \notin DOMAIN fs

\* The file a request with a path string names, in the filesystem it is
\* made on.
Target(files, inputs) == _resolve_path(files, inputs["path"]).v

IsWrite(inputs) ==
  /\ "action" \in DOMAIN inputs /\ inputs["action"] = Str(<<"write_text">>)
  /\ "path" \in DOMAIN inputs /\ inputs["path"].t = "str"

IsRead(inputs) ==
  /\ "action" \in DOMAIN inputs /\ inputs["action"] = Str(<<"read_text">>)
  /\ "path" \in DOMAIN inputs /\ inputs["path"].t = "str"

\* C33: a read_text that follows successful write_text calls on a path
\* returns the content of the last overwrite-mode write followed by the
\* contents of the later append-mode writes. Step by step: a successful
\* write in overwrite mode (the default) makes its content the text of the
\* file, a successful write in append mode adds its content to the text the
\* file had, no other call changes the text, and a successful read returns
\* the text of the file.
C33_ReadReturnsWrites ==
  [][/\ (IsWrite(file_in') /\ file_out'.success)
          => LET path == Target(fs, file_in')
                 before == IF IsFile(fs, path) THEN fs[path].data ELSE <<>>
             IN /\ IsFile(fs', path)
                /\ fs'[path].data =
                     IF "mode" \in DOMAIN file_in' /\ file_in'["mode"] = Str(<<"append">>)
                     THEN before \o file_in'["content"].v
                     ELSE file_in'["content"].v
                /\ \A q \in DOMAIN fs \ {path} : IsFile(fs, q) => fs'[q] = fs[q]
     /\ ~(IsWrite(file_in') /\ file_out'.success)
          => \A q \in DOMAIN fs : IsFile(fs, q) => fs'[q] = fs[q]
     /\ (IsRead(file_in') /\ file_out'.success)
          => file_out'.data.v["content"] = Str(fs[Target(fs, file_in')].data)]_vars

\* A file that holds a carriage return, written by a successful write_text,
\* is read back with a line feed in its place.
C33_ReadDiffers ==
  /\ IsRead(file_in) /\ file_out.success
  /\ fs[Target(fs, file_in)].data = <<CR>>
  /\ file_out.data.v["content"] = Str(<<LF>>)

\* C34: when the run directory cannot be made or plan.json cannot be
\* written, execute_plan raises instead of returning a result; no tool has
\* been invoked and no trace entry exists at that point.
C34_SaveFailureRaises ==
  [][ncalls' = ncalls + 1
       => /\ pc' \in {"loop", "raised"}
          /\ ~PlanPersisted' => pc' = "raised"
          /\ pc' = "raised"
               => /\ invoked' = <<>>
                  /\ result'.traces = <<>>
                  /\ ~result'.end_time
                  /\ step_outputs' = step_outputs
                  /\ \A d \in DOMAIN runs' :
                       /\ d \in DOMAIN runs => runs'[d] = runs[d]
                       /\ d \notin DOMAIN runs => runs'[d] = EmptyDir]_vars

C34_Witness ==
  /\ pc = "raised"
  /\ ~result.end_time
  /\ Len(plan.steps) = 2
  /\ run_dir \notin DOMAIN runs
  /\ invoked = <<>>
  /\ result.traces = <<>>

\* Every step of the plan has a trace of its own, and that trace is SUCCESS.
EveryStepSucceeded ==
  /\ Len(result.traces) = Len(plan.steps)
  /\ \A n \in DOMAIN plan.steps :
       /\ result.traces[n].step_id = plan.steps[n].id
       /\ result.traces[n].status = SUCCESS

\* C35: whenever execute_plan returns, dry run or not and also for a plan
\* without steps, overall_status is SUCCESS or FAILURE, never PENDING, and it
\* is SUCCESS exactly when every step of the plan has a SUCCESS trace.
C35_OverallStatusDecided ==
  pc = "returned"
    => /\ result.overall_status \in {SUCCESS, FAILURE}
       /\ result.overall_status = SUCCESS <=> EveryStepSucceeded

C35_Witness ==
  /\ pc = "returned"
  /\ ~dry_run
  /\ plan.steps = <<>>
  /\ result.overall_status = SUCCESS

\* C36: whenever execute_plan returns, every trace of the result is SUCCESS
\* or FAILURE with its end time set, at most one trace is FAILURE and it is
\* the last one; and within a call a trace that is SUCCESS or FAILURE is
\* never marked again.
C36_TracesTerminalOnce ==
  [][/\ pc' = "returned"
          => \A n \in DOMAIN result'.traces :
               /\ result'.traces[n].status \in {SUCCESS, FAILURE}
               /\ result'.traces[n].end_time
               /\ result'.traces[n].status = FAILURE => n = Len(result'.traces)
     /\ ncalls' = ncalls
          => /\ Len(result'.traces) >= Len(result.traces)
             /\ \A n \in DOMAIN result.traces :
                  result.traces[n].status \in {SUCCESS, FAILURE}
                    => result'.traces[n] = result.traces[n]]_vars

C36_Witness ==
  /\ pc = "returned"
  /\ ~dry_run
  /\ Len(result.traces) = 2
  /\ result.traces[1].status = SUCCESS /\ result.traces[1].end_time
  /\ result.traces[2].status = FAILURE /\ result.traces[2].end_time

\* The user was asked and answered something other than "y" or "yes".
Declined ==
  /\ cli_done.asked
  /\ ~_confirm_execution(cli_args.answer).raised
  /\ ~_confirm_execution(cli_args.answer).v

\* The command ended in an error: the plan could not be loaded or made, the
\* confirmation could not be read, or execute_plan raised.
CliError ==
  \/ cli_args.risk \in {"load_error", "init_error", "planning_error"}
  \/ cli_done.asked /\ _confirm_execution(cli_args.answer).raised
  \/ cli_done.executed /\ cli_args.outcome = "raises"

\* C37: `run` and `execute` end with exit code 0 when the executed plan's
\* overall_status is success and when the user declines the confirmation,
\* and with exit code 1 when overall_status is failure or an error occurs.
C37_ExitCodes ==
  cli_cmd \in {"run", "execute"}
    => /\ (cli_done.executed /\ cli_args.outcome = SUCCESS) => cli_done.exit_code = 0
       /\ Declined => cli_done.exit_code = 0
       /\ (cli_done.executed /\ cli_args.outcome = FAILURE) => cli_done.exit_code = 1
       /\ CliError => cli_done.exit_code = 1

\* C38: every Plan generate_plan returns has at least one step, also a plan
\* obtained through the retry; generate_plan makes at most two completion
\* calls; and every failure surfaces as a PlanningError.
C38_PlannerContract ==
  /\ Len(llm_replies) <= 2
  /\ planner_pc = "returned"
       => ~planner_ret.raised /\ Len(planner_ret.v.steps) >= 1
  /\ planner_pc = "raised"
       => planner_ret.raised /\ planner_ret.class = "PlanningError"

\* The number of signals of that name emitted so far.
Emitted(name) == Cardinality({ k \in DOMAIN signals : signals[k].name = name })

\* C39: ExecutorWorker.run calls execute_plan exactly once; `started` is its
\* first signal; step_complete is emitted only after execute_plan has
\* returned and only for traces that are SUCCESS or FAILURE; and run ends by
\* emitting exactly one of `finished`, with the result, and `error`.
C39_OneCallOneEnding ==
  /\ worker_pc = "running" => ncalls \in {worker_base, worker_base + 1}
  /\ worker_pc = "done" => ncalls = worker_base + 1
  /\ signals # <<>> => signals[1].name = "started" /\ Emitted("started") = 1
  /\ \A k \in DOMAIN signals :
       signals[k].name = "step_complete"
         => /\ pc = "returned" /\ ncalls = worker_base + 1
            /\ signals[k].arg.status \in {SUCCESS, FAILURE}
            /\ \E n \in DOMAIN result.traces : result.traces[n] = signals[k].arg
  /\ worker_pc = "running" => Emitted("finished") + Emitted("error") = 0
  /\ worker_pc = "done"
       => /\ Emitted("finished") + Emitted("error") = 1
          /\ signals[Len(signals)].name \in {"finished", "error"}
          /\ signals[Len(signals)].name = "finished"
               => pc = "returned" /\ signals[Len(signals)].arg = result
          /\ signals[Len(signals)].name = "error" => pc = "raised"

C39_Witness ==
  /\ worker_pc = "done"
  /\ Len(signals) = 6
  /\ signals[1].name = "started"
  /\ signals[4].name = "step_complete" /\ signals[4].arg.status = SUCCESS
  /\ signals[5].name = "step_complete" /\ signals[5].arg.status = FAILURE
  /\ signals[6].name = "finished" /\ signals[6].arg.overall_status = FAILURE
====
